---- MODULE Spec2Model ----
(***************************************************************************)
(* Model of the Game Session Coordinator of stand-backend: the Join        *)
(* (assign) handler, the raffle Draw handler, the validation handler with  *)
(* its per-game-type validators, and the quiz handler, all acting on the   *)
(* two DynamoDB tables (one game record, one partition of player records). *)
(* Every store call of a handler is one atomic step; handlers interleave   *)
(* between store calls.                                                    *)
(***************************************************************************)
EXTENDS Integers, Sequences, FiniteSets, TLC

VARIABLES
    game,      \* the Games record of the one game under study
    players,   \* the GamePlayer partition: playerId -> player record
    join,      \* Join invocations: id -> local state of assign.lambda_handler
    draw,      \* Draw invocations: id -> local state of raffle.lambda_handler
    val,       \* validation invocations: id -> local state of validate.lambda_handler
    quiz,      \* quiz handler: last event, its reply and messages, and per player the events handled since its last Start
    call       \* a function called on its own: its arguments and, once it returned, its result

vars == <<game, players, join, draw, val, quiz, call>>

----------------------------------------------------------------------------
(* Bounds of the model *)

NJoin == 2          \* concurrent Join invocations in SpecJoin
NIdent == 2         \* distinct identities (instagramPSID) that send joins
MaxCap == 2         \* largest maxPlayers tried in SpecJoin
BurstExtra == 1     \* joiners beyond maxPlayers (K) in the burst scenario
NRaffle == 2        \* players of the game a Draw runs on
NDraw == 1          \* Draw invocations in SpecDraw (SpecRaffle has one more)
MaxWinners == 2     \* largest numberOfWinners requested
NValPlayers == 2    \* players of the game the validation requests run on
NVal == 2           \* concurrent validation requests
MaxQuestions == 2   \* longest list of questions a quiz is configured with
MaxTypeLen == 2     \* longest gameType spelled from TypeChars
MaxTextLen == 7     \* longest message text between its leading and trailing blanks
MaxIdTokens == 2    \* most tokens between "_" separators in one id of a payload
NDeliveries == 3    \* deliveries of Stripe events for the user
MaxClock == 36      \* the clock stops advancing at this hour

(* Program constants *)

attempts == 6       \* assign/lambda_function.py:317

NONE == "none"      \* Python None / DynamoDB NULL

EmptyMap == [x \in {} |-> TRUE]    \* {} as a DynamoDB map

Codes == {1111, 2222}              \* values _code4() is drawn from (a sample of 1000..9999)

PSIDs == 1..NIdent

GameTypes == {"EMPAREJA2", "T1MER", "RULET4", "SEMAFORO", "INFOCARDS"}

\* the EMPAREJA2 character catalog: two characters of pair P1, one of pair P2
Catalog == { [pairId |-> "P1", characterId |-> 1],
             [pairId |-> "P1", characterId |-> 2],
             [pairId |-> "P2", characterId |-> 3] }

Max(S) == CHOOSE x \in S : \A y \in S : y <= x

----------------------------------------------------------------------------
(* Assigners: the type.<GAMETYPE> blob each assigner puts in its patch *)

assign_empareja2 ==
    { [characterId |-> c.characterId, pairId |-> c.pairId,
       raffleEligible |-> TRUE, quizAnswers |-> EmptyMap] : c \in Catalog }

assign_t1mer == { [score |-> 0, quizAnswers |-> EmptyMap] }

\* a RULET4 patch without the quizAnswers map
assign_rulet4_NoAnswers == { [lastSpin |-> NONE, spinUsed |-> FALSE] }

assign_rulet4 == { [lastSpin |-> NONE, spinUsed |-> FALSE, quizAnswers |-> EmptyMap] }

assign_semaforo ==
    { [onboarding |-> [stepIndex |-> 0, completed |-> FALSE],
       color |-> NONE, quizAnswers |-> EmptyMap] }

\* the common fields with a field of one game type among them
_COMMON_TYPE_FIELDS_WithScore ==
    [raffleEligible |-> TRUE, quizRequired |-> FALSE, quizCompleted |-> FALSE,
     quizCurrentQuestion |-> NONE, quizAnswers |-> EmptyMap, score |-> 0]

\* generic.py, lines 2-8
_COMMON_TYPE_FIELDS ==
    [raffleEligible |-> TRUE, quizRequired |-> FALSE, quizCompleted |-> FALSE,
     quizCurrentQuestion |-> NONE, quizAnswers |-> EmptyMap]

assign_generic == { _COMMON_TYPE_FIELDS }

\* ASSIGNERS.get(game_type, assign_generic)
ASSIGNERS(gt) ==
    CASE gt = "EMPAREJA2" -> assign_empareja2
      [] gt = "T1MER"     -> assign_t1mer
      [] gt = "RULET4"    -> assign_rulet4
      [] gt = "SEMAFORO"  -> assign_semaforo
      [] OTHER            -> assign_generic

\* a base item written before the assigner's patch is merged into it
NewPlayer_Unpatched(psid, code, gt, blob) ==
    [psid |-> psid, validated |-> FALSE, code |-> code, elig |-> FALSE,
     type |-> EmptyMap]

\* the item written by _put_player: base_item merged with the assigner's patch
NewPlayer(psid, code, gt, blob) ==
    [psid |-> psid, validated |-> FALSE, code |-> code, elig |-> FALSE,
     type |-> (gt :> blob)]

----------------------------------------------------------------------------
(* Store helpers *)

\* _find_existing_player_by_psid / _get_player_by_psid_and_game: the ids of
\* the records the identity index holds for psid (the query returns one of them)
PlayersByPsid(pl, psid) == { i \in DOMAIN pl : pl[i].psid = psid }

\* a sender whose failure to dispatch reaches the caller
Dispatch_Raising(failed) == IF failed THEN "raised" ELSE "sent"

\* _send_bulk_messages (assign 53-68), _invoke_instagram_sender (quiz 57-70),
\* _send_bulk_dms (raffle 93-106): the Event invoke of the sender; an
\* exception is caught and logged
Dispatch(failed) == IF failed THEN "logged" ELSE "sent"

\* call keeps the last dispatch that failed: the operation, its invocation
\* and a bit that flips with every failure
Noted(failed, op, id) ==
    IF failed THEN [op |-> op, id |-> id, n |-> 1 - call.n] ELSE call

\* the highest playerId read as 1 on an empty partition
LastPlayerId_FromOne(pl) == IF DOMAIN pl = {} THEN 1 ELSE Max(DOMAIN pl)

\* _get_last_player_id: highest playerId of the partition, 0 if none
LastPlayerId(pl) == IF DOMAIN pl = {} THEN 0 ELSE Max(DOMAIN pl)

\* a path-based SET through type.<g> is rejected when the path is missing
HasTypeBlob(p, gk) == gk \in DOMAIN p.type

\* _set_quiz_state: SET type.<g>.quizCurrentQuestion, type.<g>.quizCompleted
SetQuizState(pl, i, gk, nextq, done) ==
    [pl EXCEPT ![i].type[gk] =
        ("quizCurrentQuestion" :> nextq) @@ ("quizCompleted" :> done) @@ @]

\* the quiz_start event of the quiz handler for one identity: the set of
\* <<outcome, players', playerId written (0 when none)>> it can produce
QuizStartOutcomes(g, pl, psid) ==
    IF g.quizOrder = <<>>
    THEN { <<"no_quiz_config", pl, 0>> }
    ELSE IF PlayersByPsid(pl, psid) = {}
         THEN { <<"ok", pl, 0>> }
         ELSE { IF HasTypeBlob(pl[i], g.gameType)
                THEN <<"ok", SetQuizState(pl, i, g.gameType, g.quizOrder[1], FALSE), i>>
                ELSE <<"DynamoError", pl, 0>> : i \in PlayersByPsid(pl, psid) }

----------------------------------------------------------------------------
(* Join: stand_prod_game_fn_assign/lambda_function.py lambda_handler *)

\* reserved: the slot reservation succeeded; rolled: the outcome of the
\* rollback write, if one was issued
JoinIdle == [pc |-> "idle", psid |-> 0, existing |-> 0, lastPid |-> 0,
             tries |-> 0, pid |-> 0, result |-> NONE,
             reserved |-> FALSE, rolled |-> NONE]

\* lines 263-297: sanity, load game meta, idempotency lookup
JoinStart(j, p) ==
    /\ join[j].pc = "idle"
    /\ IF ~game.isActive
       THEN join' = [join EXCEPT ![j].pc = "done", ![j].psid = p,
                                 ![j].result = "game_inactive"]
       ELSE IF PlayersByPsid(players, p) # {}
            THEN \E i \in PlayersByPsid(players, p) :
                     join' = [join EXCEPT ![j].pc = "existing", ![j].psid = p,
                                          ![j].existing = i]
            ELSE join' = [join EXCEPT ![j].pc = "reserve", ![j].psid = p]
    /\ UNCHANGED <<game, players, draw, val, quiz, call>>

\* lines 281-285: the event names a gameId that has no Games record
JoinUnknownGame(j, p) ==
    /\ join[j].pc = "idle"
    /\ join' = [join EXCEPT ![j].pc = "done", ![j].psid = p,
                            ![j].result = "game_not_found"]
    /\ UNCHANGED <<game, players, draw, val, quiz, call>>

\* lines 297-314: the identity already has a player: re-send the quiz; when
\* no quiz is configured the code is revealed through _send_code_now, a name
\* the module never defines, so the handler ends in its internal_error branch
JoinExisting(j) ==
    /\ join[j].pc = "existing"
    /\ \E o \in QuizStartOutcomes(game, players, join[j].psid) :
          /\ players' = o[2]
          /\ join' = [join EXCEPT ![j].pc = "done",
                        ![j].result = IF o[1] = "no_quiz_config"
                                      THEN "internal_error"
                                      ELSE "already_joined",
                        ![j].pid = IF o[1] = "no_quiz_config" THEN 0
                                   ELSE join[j].existing]
    /\ UNCHANGED <<game, draw, val, quiz, call>>

\* the capacity guard written with <= instead of <
ReserveOK_OffByOne(g) == g.playersCount <= g.maxPlayers

\* _reserve_player_slot: ADD playersCount 1 IF playersCount < maxPlayers
ReserveOK(g) == g.playersCount < g.maxPlayers

\* the counter incremented first and the limit looked at afterwards
JoinReserve_CountFirst(j) ==
    /\ join[j].pc = "reserve"
    /\ game' = [game EXCEPT !.playersCount = @ + 1]
    /\ join' = IF game.playersCount < game.maxPlayers
               THEN [join EXCEPT ![j].pc = "read", ![j].reserved = TRUE]
               ELSE [join EXCEPT ![j].pc = "done", ![j].result = "player_limit_reached"]
    /\ UNCHANGED <<players, draw, val, quiz, call>>

\* lines 316-334: reserve a slot or reject the join
JoinReserve(j) ==
    /\ join[j].pc = "reserve"
    /\ IF ReserveOK(game)
       THEN /\ game' = [game EXCEPT !.playersCount = @ + 1]
            /\ join' = [join EXCEPT ![j].pc = "read", ![j].reserved = TRUE]
       ELSE /\ join' = [join EXCEPT ![j].pc = "done",
                                    ![j].result = "player_limit_reached"]
            /\ UNCHANGED game
    /\ UNCHANGED <<players, draw, val, quiz, call>>

\* lines 337-339: read the highest playerId
JoinReadLast(j) ==
    /\ join[j].pc = "read"
    /\ join' = [join EXCEPT ![j].pc = "put", ![j].lastPid = LastPlayerId(players)]
    /\ UNCHANGED <<game, players, draw, val, quiz, call>>

\* line 338: _get_last_player_id raises a store error; the call is outside
\* the try of line 374, so the handler ends in its internal_error branch
\* (lines 437-439), which issues no rollback
JoinReadLastFailed(j) ==
    /\ join[j].pc = "read"
    /\ join' = [join EXCEPT ![j].pc = "done", ![j].result = "internal_error"]
    /\ UNCHANGED <<game, players, draw, val, quiz, call>>

\* line 367: the assigner raises (assign_empareja2 queries the catalog table
\* and raises on a store error or an empty catalog); also outside the try
JoinAssignFailed(j) ==
    /\ join[j].pc = "put"
    /\ game.gameType = "EMPAREJA2"
    /\ join' = [join EXCEPT ![j].pc = "done", ![j].result = "internal_error"]
    /\ UNCHANGED <<game, players, draw, val, quiz, call>>

\* put_item without its ConditionExpression
PutOK_Unconditional(pl, pid) == TRUE

\* _put_player: put_item IF attribute_not_exists(playerId)
PutOK(pl, pid) == pid \notin DOMAIN pl

\* lines 339-375 and 414-417: build the item and create it conditionally;
\* a lost race is retried until the attempts are used up
JoinPut(j) ==
    /\ join[j].pc = "put"
    /\ LET new_pid == join[j].lastPid + 1 IN
       IF PutOK(players, new_pid)
       THEN /\ \E code \in Codes, blob \in ASSIGNERS(game.gameType) :
                  players' = (new_pid :> NewPlayer(join[j].psid, code, game.gameType, blob))
                             @@ players
            /\ join' = [join EXCEPT ![j].pc = "welcome", ![j].pid = new_pid]
       ELSE /\ join' = [join EXCEPT
                          ![j].tries = @ + 1,
                          ![j].pc = IF join[j].tries + 1 < attempts THEN "read"
                                    ELSE "rollback",
                          ![j].result = IF join[j].tries + 1 < attempts THEN NONE
                                        ELSE "race_condition_retry_exhausted"]
            /\ UNCHANGED players
    /\ UNCHANGED <<game, draw, val, quiz, call>>

\* a put_item that writes the record and then reports a store error
JoinPutFailed_Written(j) ==
    /\ join[j].pc = "put"
    /\ join[j].lastPid + 1 \notin DOMAIN players
    /\ \E code \in Codes, blob \in ASSIGNERS(game.gameType) :
          players' = (join[j].lastPid + 1 :>
                         NewPlayer(join[j].psid, code, game.gameType, blob)) @@ players
    /\ join' = [join EXCEPT ![j].pc = "rollback", ![j].result = "put_failed"]
    /\ UNCHANGED <<game, draw, val, quiz, call>>

\* lines 418-426: put_item raises a store error other than the condition
JoinPutFailed(j) ==
    /\ join[j].pc = "put"
    /\ join' = [join EXCEPT ![j].pc = "rollback", ![j].result = "put_failed"]
    /\ UNCHANGED <<game, players, draw, val, quiz, call>>

\* a rollback that returns without decrementing the counter
JoinRollback_NoDecrement(j) ==
    /\ join[j].pc = "rollback"
    /\ join' = [join EXCEPT ![j].pc = "done", ![j].rolled = "ok"]
    /\ UNCHANGED <<game, players, draw, val, quiz, call>>

\* _rollback_player_slot: ADD playersCount -1
JoinRollback(j) ==
    /\ join[j].pc = "rollback"
    /\ game' = [game EXCEPT !.playersCount = @ - 1]
    /\ join' = [join EXCEPT ![j].pc = "done", ![j].rolled = "ok"]
    /\ UNCHANGED <<players, draw, val, quiz, call>>

\* lines 420-423 / 428-431: the rollback itself fails; it is logged only
JoinRollbackFailed(j) ==
    /\ join[j].pc = "rollback"
    /\ join' = [join EXCEPT ![j].pc = "done", ![j].rolled = "failed"]
    /\ UNCHANGED <<game, players, draw, val, quiz, call>>

\* lines 377-412: welcome messages, synchronous quiz start, created_new reply
JoinWelcomeD(j, failed) ==
    /\ join[j].pc = "welcome"
    /\ \E o \in QuizStartOutcomes(game, players, join[j].psid) :
          players' = o[2]
    /\ join' = [join EXCEPT ![j].pc = "done",
                            ![j].result = IF Dispatch(failed) = "raised"
                                          THEN "internal_error" ELSE "created_new"]
    /\ call' = Noted(failed, "join", j)
    /\ UNCHANGED <<game, draw, val, quiz>>

\* the same with a sender that works
JoinWelcome(j) == JoinWelcomeD(j, FALSE)

----------------------------------------------------------------------------
(* Initial states *)

NewGame(gt, maxp, active, order) ==
    [gameType |-> gt, isActive |-> active, maxPlayers |-> maxp,
     playersCount |-> 0, validatedCount |-> 0, quizOrder |-> order,
     raffleWinners |-> <<>>]

NoInvocations == <<>>

InitJoin ==
    /\ \E gt \in {"T1MER", "INFOCARDS"}, maxp \in 1..MaxCap, active \in BOOLEAN,
          order \in {<<>>, <<"q1", "q2">>} :
          game = NewGame(gt, maxp, active, order)
    /\ players = <<>>
    /\ join = [j \in 1..NJoin |-> JoinIdle]
    /\ draw = NoInvocations
    /\ val = NoInvocations
    /\ quiz = <<>>
    /\ call = NoInvocations

NextJoin ==
    \/ \E j \in DOMAIN join, p \in PSIDs : JoinStart(j, p)
    \/ \E j \in DOMAIN join, p \in PSIDs : JoinUnknownGame(j, p)
    \/ \E j \in DOMAIN join : JoinExisting(j)
    \/ \E j \in DOMAIN join : JoinReserve(j)
    \/ \E j \in DOMAIN join : JoinReadLast(j)
    \/ \E j \in DOMAIN join : JoinPut(j)
    \/ \E j \in DOMAIN join : JoinPutFailed(j)
    \/ \E j \in DOMAIN join : JoinRollback(j)
    \/ \E j \in DOMAIN join : JoinRollbackFailed(j)
    \/ \E j \in DOMAIN join : JoinWelcome(j)

SpecJoin == InitJoin /\ [][NextJoin]_vars

\* Joins to an active game of any game type, registered or not
InitJoinTypes ==
    /\ \E gt \in GameTypes, order \in {<<>>, <<"q1", "q2">>} :
          game = NewGame(gt, MaxCap, TRUE, order)
    /\ players = <<>>
    /\ join = [j \in 1..NJoin |-> JoinIdle]
    /\ draw = NoInvocations
    /\ val = NoInvocations
    /\ quiz = <<>>
    /\ call = NoInvocations

\* every joiner is a different identity, so no invocation takes the re-join path
JoinStartOwn(j) == j \in PSIDs /\ JoinStart(j, j)

NextJoinTypes ==
    \/ \E j \in DOMAIN join : JoinStartOwn(j)
    \/ \E j \in DOMAIN join : JoinReserve(j)
    \/ \E j \in DOMAIN join : JoinReadLast(j)
    \/ \E j \in DOMAIN join : JoinPut(j)
    \/ \E j \in DOMAIN join : JoinPutFailed(j)
    \/ \E j \in DOMAIN join : JoinRollback(j)
    \/ \E j \in DOMAIN join : JoinWelcome(j)

SpecJoinTypes == InitJoinTypes /\ [][NextJoinTypes]_vars

\* Joins with every failure a store call or an assigner can raise after the
\* reservation
InitJoinFaults ==
    /\ \E gt \in {"T1MER", "EMPAREJA2"} : game = NewGame(gt, MaxCap, TRUE, <<>>)
    /\ players = <<>>
    /\ join = [j \in 1..NJoin |-> JoinIdle]
    /\ draw = NoInvocations
    /\ val = NoInvocations
    /\ quiz = <<>>
    /\ call = NoInvocations

NextJoinFaults ==
    \/ NextJoin
    \/ \E j \in DOMAIN join : JoinReadLastFailed(j)
    \/ \E j \in DOMAIN join : JoinAssignFailed(j)

SpecJoinFaults == InitJoinFaults /\ [][NextJoinFaults]_vars

----------------------------------------------------------------------------
(* The burst scenario: an empty game with maxPlayers = attempts + 1 and      *)
(* maxPlayers + BurstExtra joiners of pairwise distinct identities, no store *)
(* error.  SpecJoinBurst keeps only the schedules in which the joiners       *)
(* arrive in order, at most two invocations are in flight at a time and     *)
(* _code4() always draws the same code; each of its behaviours is a         *)
(* behaviour of the handlers running freely.                                *)

BurstCap == attempts + 1

InFlight == { j \in DOMAIN join : join[j].pc \notin {"idle", "done"} }

InitJoinBurst ==
    /\ game = NewGame("T1MER", BurstCap, TRUE, <<>>)
    /\ players = <<>>
    /\ join = [j \in 1..(BurstCap + BurstExtra) |-> JoinIdle]
    /\ draw = NoInvocations
    /\ val = NoInvocations
    /\ quiz = <<>>
    /\ call = NoInvocations

JoinStartBurst(j) ==
    /\ Cardinality(InFlight) <= 1
    /\ \A i \in DOMAIN join : i < j => join[i].pc # "idle"
    /\ JoinStart(j, j)

JoinPutBurst(j) ==
    /\ JoinPut(j)
    /\ \A i \in DOMAIN players' : players'[i].code = 1111

NextJoinBurst ==
    \/ \E j \in DOMAIN join : JoinStartBurst(j)
    \/ \E j \in DOMAIN join : JoinReserve(j)
    \/ \E j \in DOMAIN join : JoinReadLast(j)
    \/ \E j \in DOMAIN join : JoinPutBurst(j)
    \/ \E j \in DOMAIN join : JoinRollback(j)
    \/ \E j \in DOMAIN join : JoinWelcome(j)

SpecJoinBurst == InitJoinBurst /\ [][NextJoinBurst]_vars

\* the burst scenario in which the rollback write may fail
NextJoinBurstFaults ==
    \/ NextJoinBurst
    \/ \E j \in DOMAIN join : JoinRollbackFailed(j)

SpecJoinBurstFaults == InitJoinBurst /\ [][NextJoinBurstFaults]_vars

----------------------------------------------------------------------------
(* Properties of Join *)

Created(j) == join[j].pc = "welcome" \/ join[j].result = "created_new"

JoinersWith(r) == { j \in DOMAIN join : join[j].pc = "done" /\ join[j].result = r }

AllJoinsDone == \A j \in DOMAIN join : join[j].pc = "done"

DistinctIdentities ==
    \A a, b \in DOMAIN join : a # b => join[a].psid # join[b].psid

\* C1: in every reachable state, whatever the interleaving of Join
\* invocations and of their rollbacks, playersCount is at most maxPlayers.
C1_PlayersCountAtMostMax == game.playersCount <= game.maxPlayers

\* a full game has rejected a joiner
C1_Witness ==
    /\ game.playersCount = game.maxPlayers
    /\ JoinersWith("player_limit_reached") # {}
    /\ JoinersWith("created_new") # {}

\* C2: M+K joins of pairwise distinct identities on an empty game with
\* maxPlayers = M that have all run to completion end with exactly M newly
\* created players, exactly K player_limit_reached replies and playersCount = M.
C2_ExactlyMAdmitted ==
    (AllJoinsDone /\ DistinctIdentities /\ Cardinality(DOMAIN join) >= game.maxPlayers)
    => /\ Cardinality(JoinersWith("created_new")) = game.maxPlayers
       /\ Cardinality(JoinersWith("player_limit_reached"))
              = Cardinality(DOMAIN join) - game.maxPlayers
       /\ game.playersCount = game.maxPlayers

\* C3: no two Join invocations report the same playerId as newly created,
\* and the record stored under a reported playerId is the one its creator
\* wrote (a playerId never names two records).
C3_PlayerIdsDistinct ==
    /\ \A a, b \in DOMAIN join :
          (a # b /\ Created(a) /\ Created(b)) => join[a].pid # join[b].pid
    /\ \A a \in DOMAIN join :
          Created(a) => /\ join[a].pid \in DOMAIN players
                        /\ players[join[a].pid].psid = join[a].psid

\* two joiners read the same highest playerId; one lost the race and was
\* given the next playerId on its retry
C3_Witness ==
    \E a, b \in DOMAIN join :
        /\ a # b /\ Created(a) /\ Created(b)
        /\ join[a].lastPid = 0 /\ join[b].tries = 1 /\ join[b].pid = 2

\* C4: a Join by an identity that already has a player in the active game
\* returns that player with created_new = false.
C4_RejoinReturnsExisting ==
    \A j \in DOMAIN join :
        (join[j].pc = "done" /\ join[j].existing # 0)
        => (join[j].result = "already_joined" /\ join[j].pid = join[j].existing)

\* C5: no two player records of the game carry the same instagramPSID.
C5_IdentityUnique ==
    \A a, b \in DOMAIN players : a # b => players[a].psid # players[b].psid

----------------------------------------------------------------------------
(* Draw: stand_prod_game_fn_raffle/lambda_function.py lambda_handler *)

Min(a, b) == IF a <= b THEN a ELSE b

Range(f) == { f[i] : i \in DOMAIN f }

\* fallback: the eligible items came from the scan of lines 217-219
DrawIdle == [pc |-> "idle", n |-> 0, ov |-> FALSE, fallback |-> FALSE, cands |-> {},
             winners |-> <<>>, k |-> 0, result |-> NONE]

\* _has_psid: a deliverable identity (psid 0 stands for a missing or "#" psid)
HasPsid(p) == p.psid # 0

\* _is_validated
IsValidated(p) == p.validated

\* _is_raffle_eligible: type.<g>.raffleEligible, else the root-level flags
\* (no record of the model carries them), else True
IsRaffleEligible(p, gk) ==
    IF gk \in DOMAIN p.type /\ "raffleEligible" \in DOMAIN p.type[gk]
    THEN p.type[gk].raffleEligible
    ELSE TRUE

\* random.choices: k draws with replacement
SampleWithReplacement(S, k) == [1..k -> S]

\* random.sample(candidates, k): the lists of k candidates without repetition
Sample(S, k) == { w \in [1..k -> S] : \A a, b \in 1..k : a # b => w[a] # w[b] }

\* lines 355-371: the candidate filter applied to the eligible items
Candidates(pl, items, only_validated) ==
    { i \in items : HasPsid(pl[i]) /\ (only_validated => IsValidated(pl[i])) }

\* lines 315-353: parse, load the game, read all players for the broadcast
DrawStart(d, n, ov) ==
    /\ draw[d].pc = "idle"
    /\ IF ~game.isActive
       THEN draw' = [draw EXCEPT ![d].pc = "done", ![d].n = n, ![d].ov = ov,
                                 ![d].result = "GameInactive"]
       ELSE draw' = [draw EXCEPT ![d].pc = "query", ![d].n = n, ![d].ov = ov]
    /\ UNCHANGED <<game, players, join, val, quiz, call>>

\* lines 355-378: filter the eligible items and sample the winners
DrawSelect(d, items, fallback) ==
    LET candidates == Candidates(players, items, draw[d].ov) IN
    IF candidates = {}
    THEN draw' = [draw EXCEPT ![d].pc = "done", ![d].result = "no_candidates",
                              ![d].fallback = fallback]
    ELSE \E w \in Sample(candidates, Min(draw[d].n, Cardinality(candidates))) :
            draw' = [draw EXCEPT ![d].pc = "save", ![d].cands = candidates,
                                 ![d].winners = w, ![d].fallback = fallback]

\* _query_eligible_players through the sparse index gsi-raffleEligible
DrawQueryEligible(d) ==
    /\ draw[d].pc = "query"
    /\ DrawSelect(d, { i \in DOMAIN players : players[i].elig }, FALSE)
    /\ UNCHANGED <<game, players, join, val, quiz, call>>

\* _query_eligible_players, lines 217-219: the index query raised; scan the
\* partition and filter with _is_raffle_eligible(it, "")
DrawQueryFallback(d) ==
    /\ draw[d].pc = "query"
    /\ DrawSelect(d, { i \in DOMAIN players : IsRaffleEligible(players[i], "") }, TRUE)
    /\ UNCHANGED <<game, players, join, val, quiz, call>>

\* _save_raffle_winners_to_game
DrawSave(d) ==
    /\ draw[d].pc = "save"
    /\ game' = [game EXCEPT !.raffleWinners = draw[d].winners]
    /\ draw' = [draw EXCEPT ![d].pc = "mark", ![d].k = 1]
    /\ UNCHANGED <<players, join, val, quiz, call>>

\* _mark_winner: ensure type and type.<g>, then set the win flags and
\* REMOVE eligibleForGameId
MarkWinner(pl, i, gk) ==
    [pl EXCEPT ![i].elig = FALSE,
               ![i].type = (gk :> (("raffleEligible" :> FALSE) @@ ("raffleWin" :> TRUE)
                                   @@ (IF gk \in DOMAIN @ THEN @[gk] ELSE EmptyMap)))
                           @@ @]

\* the winners loop moves on; after the last winner the messages are sent
\* and the Draw replies (lines 441-459)
DrawAdvance(d, failed) ==
    /\ failed => draw[d].k >= Len(draw[d].winners)
    /\ draw' = [draw EXCEPT ![d].k = @ + 1,
                            ![d].pc = IF draw[d].k < Len(draw[d].winners)
                                      THEN "mark" ELSE "done",
                            ![d].result = IF draw[d].k < Len(draw[d].winners)
                                          THEN NONE
                                          ELSE IF Dispatch(failed) = "raised"
                                               THEN "internal_error" ELSE "ok"]
    /\ call' = Noted(failed, "draw", d)

\* lines 408-437: persist the win of the next winner
DrawMarkD(d, failed) ==
    /\ draw[d].pc = "mark"
    /\ players' = MarkWinner(players, draw[d].winners[draw[d].k], game.gameType)
    /\ DrawAdvance(d, failed)
    /\ UNCHANGED <<game, join, val, quiz>>

\* the same with a sender that works
DrawMark(d) == DrawMarkD(d, FALSE)

\* lines 438-439: _mark_winner raised; the error is logged and the loop goes on
DrawMarkFailed(d) ==
    /\ draw[d].pc = "mark"
    /\ DrawAdvance(d, FALSE)
    /\ UNCHANGED <<game, players, join, val, quiz>>

\* the player records the Draw runs on: created as Join creates them; the
\* first v of them were validated since, any of them was given the
\* eligibility marker, the last one may lack a deliverable psid
RafflePlayers(gt) ==
    { [i \in 1..NRaffle |->
          [NewPlayer(IF i = NRaffle /\ nopsid THEN 0 ELSE i, 1111, gt, blob)
              EXCEPT !.validated = (i <= v), !.elig = (i \in E)]] :
        v \in 0..NRaffle, E \in SUBSET (1..NRaffle), nopsid \in BOOLEAN,
        blob \in ASSIGNERS(gt) }

InitDraws(n) ==
    /\ game = [NewGame("INFOCARDS", NRaffle, TRUE, <<>>) EXCEPT !.playersCount = NRaffle]
    /\ players \in RafflePlayers("INFOCARDS")
    /\ join = NoInvocations
    /\ draw = [d \in 1..n |-> DrawIdle]
    /\ val = NoInvocations
    /\ quiz = <<>>
    /\ call = NoInvocations

InitDraw == InitDraws(NDraw)

InitRaffle == InitDraws(NDraw + 1)

NextRaffle ==
    \/ \E d \in DOMAIN draw, n \in 1..MaxWinners, ov \in BOOLEAN : DrawStart(d, n, ov)
    \/ \E d \in DOMAIN draw : DrawQueryEligible(d)
    \/ \E d \in DOMAIN draw : DrawQueryFallback(d)
    \/ \E d \in DOMAIN draw : DrawSave(d)
    \/ \E d \in DOMAIN draw : DrawMark(d)
    \/ \E d \in DOMAIN draw : DrawMarkFailed(d)

\* NDraw Draw invocations
SpecDraw == InitDraw /\ [][NextRaffle]_vars

\* one more Draw invocation on the same game
SpecRaffle == InitRaffle /\ [][NextRaffle]_vars

----------------------------------------------------------------------------
(* Properties of Draw *)

Selected(d) == draw[d].pc \in {"save", "mark"} \/ draw[d].result = "ok"

\* C6: no player is among the selected winners of two different Draws of
\* the game.
C6_WinsAtMostOnce ==
    \A a, b \in DOMAIN draw :
        a # b => Range(draw[a].winners) \cap Range(draw[b].winners) = {}

\* C7: a Draw whose candidate set has size C and that asks for W >= 1
\* winners selects exactly min(C, W) winners, all of them candidates and
\* pairwise distinct.
C7_SelectsMinDistinct ==
    \A d \in DOMAIN draw :
        LET w == draw[d].winners IN
        /\ Selected(d) =>
             /\ Len(w) = Min(Cardinality(draw[d].cands), draw[d].n)
             /\ Range(w) \subseteq draw[d].cands
             /\ \A a, b \in 1..Len(w) : a # b => w[a] # w[b]
        /\ draw[d].result = "no_candidates" => w = <<>>

\* a Draw that asked for 2 winners and had 2 candidates has drawn both
C7_Witness ==
    \E d \in DOMAIN draw :
        /\ draw[d].result = "ok" /\ draw[d].n = 2
        /\ Cardinality(draw[d].cands) = 2 /\ Range(draw[d].winners) = draw[d].cands

----------------------------------------------------------------------------
(* Validation: stand_prod_game_validate/lambda_function.py lambda_handler, *)
(* validators/generic.py, validators/rulet4.py, validators/empareja2.py.   *)
(* QUIZ_LAMBDA_NAME keeps its default "" here, so invoke_quiz returns at    *)
(* once.                                                                    *)

BAD == 0            \* a submitted code that to_int_code maps to None

CodeInputs == Codes \cup {BAD}

\* the 'codes' lists of a request: one or two codes
CodeLists == { <<c>> : c \in CodeInputs } \cup { <<c, e>> : c, e \in CodeInputs }

ValIdle == [pc |-> "idle", codes |-> <<>>, ci |-> 0, items |-> <<>>,
            found_any |-> FALSE, found_used |-> FALSE, found_quiz_missing |-> FALSE,
            p1 |-> 0, p2 |-> 0, changed |-> 0, pid |-> 0, result |-> NONE]

\* is_quiz_required: type.<game>.quizRequired, missing => False
is_quiz_required(p, gk) ==
    IF gk \in DOMAIN p.type /\ "quizRequired" \in DOMAIN p.type[gk]
    THEN p.type[gk].quizRequired ELSE FALSE

\* is_quiz_completed: type.<game>.quizCompleted, missing => False
is_quiz_completed(p, gk) ==
    IF gk \in DOMAIN p.type /\ "quizCompleted" \in DOMAIN p.type[gk]
    THEN p.type[gk].quizCompleted ELSE FALSE

\* the elements of a set of playerIds in ascending order
RECURSIVE Ascending(_)
Ascending(S) ==
    IF S = {} THEN <<>>
    ELSE LET m == CHOOSE x \in S : \A y \in S : x <= y
         IN <<m>> \o Ascending(S \ {m})

\* query_players_by_code: the items of the partition whose validationCode
\* is code, as read at the time of the query
query_players_by_code(pl, gk, code) ==
    LET ids == Ascending({ i \in DOMAIN pl : pl[i].code = code }) IN
    [k \in 1..Len(ids) |->
        [pid |-> ids[k], validated |-> pl[ids[k]].validated,
         quiz_missing |-> is_quiz_required(pl[ids[k]], gk)
                          /\ ~is_quiz_completed(pl[ids[k]], gk),
         type |-> pl[ids[k]].type]]

\* to_int_code over the list, dropping the None entries
RECURSIVE Numeric(_)
Numeric(codes) ==
    IF codes = <<>> THEN <<>>
    ELSE IF Head(codes) = BAD THEN Numeric(Tail(codes))
         ELSE <<Head(codes)>> \o Numeric(Tail(codes))

\* set_validated without its ConditionExpression
SetValidatedOK_Unconditional(pl, pid) == TRUE

\* set_validated: SET validated = true IF attribute_not_exists(validated) OR
\* validated = false
SetValidatedOK(pl, pid) == ~pl[pid].validated

\* validators/rulet4.py _validate_single_code, lines 36-43: skip the items that
\* were read as validated or as waiting for their quiz
RECURSIVE SkipItems(_)
SkipItems(r) ==
    IF r.items = <<>> THEN r
    ELSE IF Head(r.items).validated
         THEN SkipItems([r EXCEPT !.items = Tail(@), !.found_used = TRUE])
         ELSE IF Head(r.items).quiz_missing
              THEN SkipItems([r EXCEPT !.items = Tail(@), !.found_quiz_missing = TRUE])
              ELSE r

\* validators/rulet4.py _validate_single_code, lines 67-74: the reply when
\* no item was validated
SingleCodeReason(r) ==
    IF ~r.found_any THEN "no_code_match"
    ELSE IF r.found_quiz_missing /\ ~r.found_used THEN "quiz_not_completed"
    ELSE IF r.found_used THEN "already_validated"
    ELSE "no_match"

\* validators/rulet4.py _validate_single_code, lines 31-50: the loop up to
\* its next store call
SingleCodeContinue(r0) ==
    LET r == SkipItems(r0) IN
    IF r.items # <<>> THEN [r EXCEPT !.pc = "set"]
    ELSE IF r.ci < Len(r.codes) THEN [r EXCEPT !.pc = "query", !.ci = @ + 1]
    ELSE [r EXCEPT !.pc = "done", !.result = SingleCodeReason(r)]

\* the game types validated by the single-code loop (the one of T1MER is the
\* same loop; SEMAFORO has a validator of its own, not modelled here)
SingleCodeTypes == {"T1MER", "RULET4"}

\* lambda_handler, lines 241-285, and the head of the validator chosen by
\* VALIDATORS.get(game_type, validate_generic)
ValStart(v, codes) ==
    /\ val[v].pc = "idle"
    /\ LET r == [val[v] EXCEPT !.codes = codes] IN
       val' = [val EXCEPT ![v] =
          IF ~game.isActive THEN [r EXCEPT !.pc = "done", !.result = "GameInactive"]
          ELSE IF game.gameType = "EMPAREJA2"
          THEN IF Len(codes) # 2
               THEN [r EXCEPT !.pc = "done", !.result = "invalid_code_count"]
               ELSE IF codes[1] = BAD \/ codes[2] = BAD
               THEN [r EXCEPT !.pc = "done", !.result = "invalid_code_format"]
               ELSE IF codes[1] = codes[2]
               THEN [r EXCEPT !.pc = "done", !.result = "same_code"]
               ELSE [r EXCEPT !.pc = "q1"]
          ELSE IF game.gameType \in SingleCodeTypes
          THEN IF Numeric(codes) = <<>>
               THEN [r EXCEPT !.pc = "done", !.result = "invalid_codes"]
               ELSE [r EXCEPT !.pc = "query", !.codes = Numeric(codes), !.ci = 1]
          ELSE [r EXCEPT !.pc = "done", !.result = "unknown_game"]]
    /\ UNCHANGED <<game, players, join, draw, quiz, call>>

\* validators/rulet4.py _validate_single_code, lines 31-34: query the next code
ValQuery(v) ==
    /\ val[v].pc = "query"
    /\ LET items == query_players_by_code(players, game.gameType, val[v].codes[val[v].ci]) IN
       val' = [val EXCEPT ![v] =
                 SingleCodeContinue([val[v] EXCEPT !.items = items,
                                        !.found_any = @ \/ items # <<>>])]
    /\ UNCHANGED <<game, players, join, draw, quiz, call>>

\* validators/rulet4.py _validate_single_code, lines 45-50: set_validated on
\* the next item
ValSet(v) ==
    /\ val[v].pc = "set"
    /\ LET pid == Head(val[v].items).pid IN
       IF SetValidatedOK(players, pid)
       THEN /\ players' = [players EXCEPT ![pid].validated = TRUE]
            /\ val' = [val EXCEPT ![v].pc = "inc", ![v].pid = pid, ![v].changed = 1]
       ELSE /\ val' = [val EXCEPT ![v] =
                        SingleCodeContinue([val[v] EXCEPT !.items = Tail(@),
                                               !.found_used = TRUE])]
            /\ UNCHANGED players
    /\ UNCHANGED <<game, join, draw, quiz, call>>

\* inc_validated_count (rulet4.py 52-65, empareja2.py 74-79), then the
\* valid = true reply
ValInc(v) ==
    /\ val[v].pc = "inc"
    /\ game' = [game EXCEPT !.validatedCount = @ + val[v].changed]
    /\ val' = [val EXCEPT ![v].pc = "done", ![v].result = "valid"]
    /\ UNCHANGED <<players, join, draw, quiz, call>>

\* the reply of a request whose inc_validated_count raised: rulet4.py, line
\* 56, logs through the name log, which the module never defines, so the
\* except branch itself raises and lambda_handler answers 500 internal_error
\* (lambda_function.py 299-301); generic.py (_log), empareja2.py and
\* semaforo.py (ctx["log"]) log and go on to valid = true
IncFailureReply(gt) == IF gt = "RULET4" THEN "internal_error" ELSE "valid"

\* inc_validated_count raises a store error: validatedCount is not written
ValIncFailed(v) ==
    /\ val[v].pc = "inc"
    /\ val' = [val EXCEPT ![v].pc = "done",
                          ![v].result = IncFailureReply(game.gameType)]
    /\ UNCHANGED <<game, players, join, draw, quiz, call>>

\* str(t.get("pairId") or ""), lines 55-56
PairIdOf(t) == IF "pairId" \in DOMAIN t THEN t.pairId ELSE ""

\* t.get("characterId"), line 61
CharacterIdOf(t) == IF "characterId" \in DOMAIN t THEN t.characterId ELSE NONE

\* the checks with the pair data looked at before the validated flags
PairReason_PairDataFirst(p1s, p2s) ==
    IF p1s = <<>> \/ p2s = <<>> THEN "code_not_found"
    ELSE LET p1 == p1s[1]
             p2 == p2s[1]
             t1 == IF "EMPAREJA2" \in DOMAIN p1.type THEN p1.type["EMPAREJA2"] ELSE EmptyMap
             t2 == IF "EMPAREJA2" \in DOMAIN p2.type THEN p2.type["EMPAREJA2"] ELSE EmptyMap
         IN IF PairIdOf(t1) = "" \/ PairIdOf(t2) = "" THEN "missing_pair_data"
            ELSE IF p1.validated \/ p2.validated THEN "already_validated"
            ELSE IF CharacterIdOf(t1) = CharacterIdOf(t2) THEN "same_character"
            ELSE IF PairIdOf(t1) # PairIdOf(t2) THEN "different_pair"
            ELSE "ok"

\* validate_empareja2, lines 37-65: the checks on the two items read
PairReason(p1s, p2s) ==
    IF p1s = <<>> \/ p2s = <<>> THEN "code_not_found"
    ELSE LET p1 == p1s[1]
             p2 == p2s[1]
             t1 == IF "EMPAREJA2" \in DOMAIN p1.type THEN p1.type["EMPAREJA2"] ELSE EmptyMap
             t2 == IF "EMPAREJA2" \in DOMAIN p2.type THEN p2.type["EMPAREJA2"] ELSE EmptyMap
         IN IF p1.validated \/ p2.validated THEN "already_validated"
            ELSE IF PairIdOf(t1) = "" \/ PairIdOf(t2) = "" THEN "missing_pair_data"
            ELSE IF CharacterIdOf(t1) = CharacterIdOf(t2) THEN "same_character"
            ELSE IF PairIdOf(t1) # PairIdOf(t2) THEN "different_pair"
            ELSE "ok"

\* validate_empareja2, line 35: query the first code
ValPairQuery1(v) ==
    /\ val[v].pc = "q1"
    /\ val' = [val EXCEPT ![v].pc = "q2",
                 ![v].items = query_players_by_code(players, "EMPAREJA2", val[v].codes[1])]
    /\ UNCHANGED <<game, players, join, draw, quiz, call>>

\* validate_empareja2, lines 36-68: query the second code and check the pair
ValPairQuery2(v) ==
    /\ val[v].pc = "q2"
    /\ LET p2s == query_players_by_code(players, "EMPAREJA2", val[v].codes[2])
           reason == PairReason(val[v].items, p2s) IN
       val' = [val EXCEPT ![v] =
                 IF reason = "ok"
                 THEN [val[v] EXCEPT !.pc = "set1", !.p1 = val[v].items[1].pid,
                                     !.p2 = p2s[1].pid, !.items = <<>>]
                 ELSE [val[v] EXCEPT !.pc = "done", !.result = reason, !.items = <<>>]]
    /\ UNCHANGED <<game, players, join, draw, quiz, call>>

\* validate_empareja2, line 70: changed1 = set_validated(game_id, pid1)
ValPairSet1(v) ==
    /\ val[v].pc = "set1"
    /\ IF SetValidatedOK(players, val[v].p1)
       THEN /\ players' = [players EXCEPT ![val[v].p1].validated = TRUE]
            /\ val' = [val EXCEPT ![v].pc = "set2", ![v].changed = 1]
       ELSE /\ val' = [val EXCEPT ![v].pc = "set2"]
            /\ UNCHANGED players
    /\ UNCHANGED <<game, join, draw, quiz, call>>

\* validate_empareja2, lines 71-75: changed2 = set_validated(game_id, pid2);
\* with nothing changed the reply is valid = true all the same
ValPairSet2(v) ==
    /\ val[v].pc = "set2"
    /\ LET ok == SetValidatedOK(players, val[v].p2)
           inc == val[v].changed + (IF ok THEN 1 ELSE 0) IN
       /\ players' = IF ok THEN [players EXCEPT ![val[v].p2].validated = TRUE]
                     ELSE players
       /\ val' = [val EXCEPT ![v].changed = inc,
                    ![v].pc = IF inc > 0 THEN "inc" ELSE "done",
                    ![v].result = IF inc > 0 THEN NONE ELSE "valid"]
    /\ UNCHANGED <<game, join, draw, quiz, call>>

\* validate_empareja2, line 70: set_validated raises a store error other than
\* the failed condition; lambda_handler answers 500 with valid = false
\* (lambda_function.py 296-298)
ValPairSet1Failed(v) ==
    /\ val[v].pc = "set1"
    /\ val' = [val EXCEPT ![v].pc = "done", ![v].result = "DynamoError"]
    /\ UNCHANGED <<game, players, join, draw, quiz, call>>

\* validate_empareja2, line 71: the second set_validated raises a store
\* error; nothing undoes the first one
ValPairSet2Failed(v) ==
    /\ val[v].pc = "set2"
    /\ val' = [val EXCEPT ![v].pc = "done", ![v].result = "DynamoError"]
    /\ UNCHANGED <<game, players, join, draw, quiz, call>>

\* the quiz state a player can be in when its code is submitted: no quiz
\* configured since it joined, quiz required and pending, quiz completed
QuizFlags == { EmptyMap,
               [quizRequired |-> TRUE, quizCompleted |-> FALSE],
               [quizRequired |-> TRUE, quizCompleted |-> TRUE] }

\* NValPlayers players of a single-code game, each with one of the codes
SingleCodePlayers(gt) ==
    { pl \in [1..NValPlayers ->
                { NewPlayer(0, c, gt, q @@ b)
                    : c \in Codes, q \in QuizFlags, b \in ASSIGNERS(gt) }] :
        pl[1].code = 1111 }

WithPsids(pl) == [i \in DOMAIN pl |-> [pl[i] EXCEPT !.psid = i]]

InitValidate ==
    /\ game = [NewGame("RULET4", NValPlayers, TRUE, <<>>) EXCEPT !.playersCount = NValPlayers]
    /\ \E pl \in SingleCodePlayers("RULET4") : players = WithPsids(pl)
    /\ join = NoInvocations
    /\ draw = NoInvocations
    /\ val = [v \in 1..NVal |-> ValIdle]
    /\ quiz = <<>>
    /\ call = NoInvocations

NextValidate ==
    \/ \E v \in DOMAIN val, codes \in CodeLists : ValStart(v, codes)
    \/ \E v \in DOMAIN val : ValQuery(v)
    \/ \E v \in DOMAIN val : ValSet(v)
    \/ \E v \in DOMAIN val : ValInc(v)

SpecValidate == InitValidate /\ [][NextValidate]_vars

\* single-code validation in which inc_validated_count may raise
NextValidateFaults ==
    \/ NextValidate
    \/ \E v \in DOMAIN val : ValIncFailed(v)

SpecValidateFaults == InitValidate /\ [][NextValidateFaults]_vars

\* NValPlayers players of a game whose gameType has no entry in VALIDATORS
InitValidateUnregistered ==
    /\ game = [NewGame("INFOCARDS", NValPlayers, TRUE, <<>>) EXCEPT !.playersCount = NValPlayers]
    /\ \E pl \in SingleCodePlayers("INFOCARDS") : players = WithPsids(pl)
    /\ join = NoInvocations
    /\ draw = NoInvocations
    /\ val = [v \in 1..NVal |-> ValIdle]
    /\ quiz = <<>>
    /\ call = NoInvocations

\* validate_generic answers such a request at once, so the request is one step
NextValidateUnregistered ==
    \E v \in DOMAIN val, codes \in CodeLists : ValStart(v, codes)

SpecValidateUnregistered == InitValidateUnregistered /\ [][NextValidateUnregistered]_vars

\* NValPlayers players of an EMPAREJA2 game
PairPlayers ==
    { pl \in [1..NValPlayers ->
                { NewPlayer(0, c, "EMPAREJA2", b) : c \in Codes, b \in assign_empareja2 }] :
        pl[1].code = 1111 }

InitPair ==
    /\ game = [NewGame("EMPAREJA2", NValPlayers, TRUE, <<>>) EXCEPT !.playersCount = NValPlayers]
    /\ \E pl \in PairPlayers : players = WithPsids(pl)
    /\ join = NoInvocations
    /\ draw = NoInvocations
    /\ val = [v \in 1..NVal |-> ValIdle]
    /\ quiz = <<>>
    /\ call = NoInvocations

NextPair ==
    \/ \E v \in DOMAIN val, codes \in CodeLists : ValStart(v, codes)
    \/ \E v \in DOMAIN val : ValPairQuery1(v)
    \/ \E v \in DOMAIN val : ValPairQuery2(v)
    \/ \E v \in DOMAIN val : ValPairSet1(v)
    \/ \E v \in DOMAIN val : ValPairSet2(v)
    \/ \E v \in DOMAIN val : ValInc(v)

SpecPair == InitPair /\ [][NextPair]_vars

\* pair validation in which a set_validated may raise a store error
NextPairFaults ==
    \/ NextPair
    \/ \E v \in DOMAIN val : ValPairSet1Failed(v)
    \/ \E v \in DOMAIN val : ValPairSet2Failed(v)

SpecPairFaults == InitPair /\ [][NextPairFaults]_vars

\* the type.EMPAREJA2 maps a submitted player can carry: those of the
\* assigner, one with an empty pairId, one without pair data
PairBlobs ==
    assign_empareja2
        \cup { [characterId |-> 1, pairId |-> "", raffleEligible |-> TRUE,
                quizAnswers |-> EmptyMap],
               [quizAnswers |-> EmptyMap] }

\* NValPlayers players of an EMPAREJA2 game, validated or not
AnyPairPlayers ==
    [1..NValPlayers ->
        { [NewPlayer(0, c, "EMPAREJA2", b) EXCEPT !.validated = v] :
            c \in Codes, b \in PairBlobs, v \in BOOLEAN }]

\* one validation request on its own
InitPairAlone ==
    /\ game = [NewGame("EMPAREJA2", NValPlayers, TRUE, <<>>) EXCEPT !.playersCount = NValPlayers]
    /\ \E pl \in AnyPairPlayers : players = WithPsids(pl)
    /\ join = NoInvocations
    /\ draw = NoInvocations
    /\ val = <<ValIdle>>
    /\ quiz = <<>>
    /\ call = NoInvocations

SpecPairAlone == InitPairAlone /\ [][NextPair]_vars

----------------------------------------------------------------------------
(* Properties of validation *)

\* the requests that have started and whose codes are exactly those of cs
RequestsWith(cs) ==
    { v \in DOMAIN val : val[v].pc # "idle" /\ Range(val[v].codes) = cs }

ValidOnes(V) == { v \in V : val[v].result = "valid" }

\* a code that exactly one player of the game holds
CodeOf(i) == players[i].code

UniqueCode(i) == \A k \in DOMAIN players : k # i => CodeOf(k) # CodeOf(i)

\* exactly one request of V is answered valid = true, every other one
\* already_validated
ExactlyOnceAmong(V) ==
    /\ Cardinality(ValidOnes(V)) <= 1
    /\ \A v \in V : val[v].pc = "done" =>
                       val[v].result \in {"valid", "already_validated"}
    /\ (V # {} /\ \A v \in V : val[v].pc = "done") => Cardinality(ValidOnes(V)) = 1

\* two players that form a pair: same pairId, different characterId
IsPair(a, b) ==
    /\ a # b
    /\ players[a].type["EMPAREJA2"].pairId = players[b].type["EMPAREJA2"].pairId
    /\ players[a].type["EMPAREJA2"].characterId # players[b].type["EMPAREJA2"].characterId
    /\ UniqueCode(a) /\ UniqueCode(b)

\* C8: among the validation requests that submit the two codes of a pair of
\* Empareja2 players (same pairId, different characterId, unvalidated before
\* the first request), exactly one returns valid = true and every other one
\* returns already_validated.
C8_PairValidatedOnce ==
    \A a, b \in DOMAIN players :
        IsPair(a, b) => ExactlyOnceAmong(RequestsWith({CodeOf(a), CodeOf(b)}))

QuizPending(i) ==
    is_quiz_required(players[i], game.gameType) /\ ~is_quiz_completed(players[i], game.gameType)

AllValDone == \A v \in DOMAIN val : val[v].pc = "done"

\* the requests that have started and submit the code c, alone or not
Submitting(c) ==
    { v \in DOMAIN val : val[v].pc # "idle" /\ c \in Range(val[v].codes) }

\* when every request that submits the code of player i submits that code
\* alone, exactly one of them is answered valid = true; when these are all
\* the requests there are, validatedCount has grown by 1
SingleCodeOnce(i) ==
    Submitting(CodeOf(i)) = RequestsWith({CodeOf(i)}) =>
        /\ ExactlyOnceAmong(RequestsWith({CodeOf(i)}))
        /\ (AllValDone /\ RequestsWith({CodeOf(i)}) = DOMAIN val) => game.validatedCount = 1

\* C9 as stated: for the code of any one unvalidated player of a single-code
\* game, exactly one of the requests with that code returns valid = true,
\* the others already_validated, and validatedCount grows by exactly 1.
C9_Original ==
    \A i \in DOMAIN players : UniqueCode(i) => SingleCodeOnce(i)

\* C9 (amended): the same for a player whose quiz is not pending
\* (quizRequired false, or quizCompleted true).
C9_SingleCodeValidatedOnce ==
    \A i \in DOMAIN players : (UniqueCode(i) /\ ~QuizPending(i)) => SingleCodeOnce(i)

\* every request submitted the code of the same player; one was answered
\* valid = true, the other already_validated, and validatedCount is 1
C9_Witness ==
    \E i \in DOMAIN players :
        /\ UniqueCode(i) /\ ~QuizPending(i) /\ AllValDone
        /\ RequestsWith({CodeOf(i)}) = DOMAIN val
        /\ Cardinality(ValidOnes(DOMAIN val)) = 1
        /\ \E v \in DOMAIN val : val[v].result = "already_validated"
        /\ game.validatedCount = 1

----------------------------------------------------------------------------
(* Quiz: stand_prod_game_fn_quiz/lambda_function.py. A string is modelled  *)
(* as the sequence of its tokens between "_" separators.                   *)

QIds == {"q1", "q2", "q3"}       \* question ids

AIds == {"a1"}                   \* answer ids

NoId == ""                       \* a question without id or text

GameId == <<"g1">>               \* the gameId of the game under study

\* the 'questions' lists of a POST configure
QuestionLists == UNION { [1..n -> QIds \cup {NoId}] : n \in 1..MaxQuestions }

\* quick-reply payloads: an answer of this game, an answer of another game,
\* a QR_ control, a payload with too few tokens
Payloads ==
    { GameId \o <<q, a>> : q \in QIds, a \in AIds }
        \cup { <<"g2", "q1", "a1">>, <<"QR", "CLOSE">>, <<"q1", "a1">> }

\* a player's log is capped at a Start and one answer per question
MaxEvents == MaxQuestions + 1

\* _parse_quiz_payload: the last two tokens are questionId and answerId; a
\* missing part is the empty string, or the empty sequence for gameId
_parse_quiz_payload(payload) ==
    LET n == Len(payload)
        none == [game_id |-> <<>>, question_id |-> "", answer_id |-> <<>>] IN
    IF payload = <<>> THEN none
    ELSE IF n >= 2 /\ payload[1] = "QR"
         THEN [none EXCEPT !.answer_id = payload]
         ELSE IF n < 3 THEN none
              ELSE IF payload[n - 1] = "" \/ payload[n] = "" THEN none
                   ELSE [game_id |-> SubSeq(payload, 1, n - 2),
                         question_id |-> payload[n - 1],
                         answer_id |-> <<payload[n]>>]

\* list.index: the first position of x in s
IndexOf(x, s) == CHOOSE k \in 1..Len(s) : s[k] = x /\ \A m \in 1..(k - 1) : s[m] # x

\* _next_question_id: the entry after the first occurrence of current_qid
_next_question_id(current_qid, quiz_order) ==
    IF quiz_order = <<>> THEN NONE
    ELSE IF \A k \in 1..Len(quiz_order) : quiz_order[k] # current_qid
         THEN quiz_order[1]
         ELSE LET idx == IndexOf(current_qid, quiz_order) IN
              IF idx < Len(quiz_order) THEN quiz_order[idx + 1] ELSE NONE

\* a save that keeps the answer a question already has
_save_quiz_answer_KeepFirst(pl, i, gk, question_id, answer_id) ==
    [pl EXCEPT ![i].type[gk].quizAnswers = @ @@ (question_id :> answer_id)]

\* _save_quiz_answer: SET type.<g>.quizAnswers.<qid> = answer
_save_quiz_answer(pl, i, gk, question_id, answer_id) ==
    [pl EXCEPT ![i].type[gk].quizAnswers = (question_id :> answer_id) @@ @]

\* the nested SET of _save_quiz_answer needs type.<g>.quizAnswers to exist
HasQuizAnswers(p, gk) == HasTypeBlob(p, gk) /\ "quizAnswers" \in DOMAIN p.type[gk]

\* _save_quiz_meta, lines 115-138: the ids of the questions that are kept
quiz_order_of(questions) == SelectSeq(questions, LAMBDA q : q # NoId)

\* a configure that writes each player's record anew
_prepare_quiz_for_existing_players_Rewrite(pl, gk) ==
    [i \in DOMAIN pl |->
        [pl[i] EXCEPT !.validated = FALSE,
                      !.type = (gk :> (("quizRequired" :> TRUE) @@ ("quizCompleted" :> FALSE)
                                       @@ ("quizCurrentQuestion" :> NONE)
                                       @@ ("quizAnswers" :> EmptyMap))) @@ @]]

\* _prepare_quiz_for_existing_players: the three updates on every player
\* (the type and type.<g> maps and quizAnswers only where missing)
_prepare_quiz_for_existing_players(pl, gk) ==
    [i \in DOMAIN pl |->
        LET old == IF gk \in DOMAIN pl[i].type THEN pl[i].type[gk] ELSE EmptyMap IN
        [pl[i] EXCEPT !.type =
            (gk :> (("quizRequired" :> TRUE) @@ ("quizCompleted" :> FALSE)
                    @@ ("quizCurrentQuestion" :> NONE) @@ old
                    @@ ("quizAnswers" :> EmptyMap))) @@ @]]

\* the entry an event adds to the logs of the players it wrote
Logged(log, S, e) == [i \in DOMAIN log |-> IF i \in S THEN Append(log[i], e) ELSE log[i]]

\* lambda_handler, lines 447-469: POST configure
QuizConfigure(questions) ==
    /\ \A i \in DOMAIN quiz.log : Len(quiz.log[i]) < MaxEvents
    /\ IF quiz_order_of(questions) = <<>>
       THEN /\ quiz' = [quiz EXCEPT !.ev = "configure", !.out = "quiz_meta_error",
                                     !.sent = 0]
            /\ UNCHANGED <<game, players>>
       ELSE /\ game' = [game EXCEPT !.quizOrder = quiz_order_of(questions)]
            /\ players' = _prepare_quiz_for_existing_players(players, game.gameType)
            /\ quiz' = [ev |-> "configure", out |-> "configured", sent |-> 0,
                        log |-> Logged(quiz.log, DOMAIN players, "configure")]
    /\ UNCHANGED <<join, draw, val, call>>

\* quiz_start with the intro sent before quizOrder is looked at
StartMessages_IntroFirst(g, pl, psid) == IF PlayersByPsid(pl, psid) = {} THEN 1 ELSE 2

\* lambda_handler, lines 491-522: the messages quiz_start sends: none without
\* a quiz, the not-found notice, or the intro with the first question
StartMessages(g, pl, psid) ==
    IF g.quizOrder = <<>> THEN 0
    ELSE IF PlayersByPsid(pl, psid) = {} THEN 1 ELSE 2

\* lambda_handler, lines 478-528: the quiz_start event for one identity
QuizStartD(psid, failed) ==
    /\ failed => StartMessages(game, players, psid) > 0
    /\ \E o \in QuizStartOutcomes(game, players, psid) :
          /\ players' = o[2]
          /\ quiz' = [ev |-> "start",
                      out |-> IF Dispatch(failed) = "raised" THEN "internal_error"
                              ELSE o[1],
                      sent |-> StartMessages(game, players, psid),
                      log |-> [i \in DOMAIN quiz.log |->
                                  IF i = o[3] THEN <<"start">> ELSE quiz.log[i]]]
    /\ call' = Noted(failed, "start", psid)
    /\ UNCHANGED <<game, join, draw, val>>

\* the same with a sender that works
QuizStart(psid) == QuizStartD(psid, FALSE)

\* lambda_handler, lines 531-589: the quiz_answer event
QuizAnswerD(psid, payload, failed) ==
    /\ LET ev == _parse_quiz_payload(payload)
           gk == game.gameType IN
       IF ev.game_id = <<>> /\ ev.question_id = "" /\ ev.answer_id # <<>>
       THEN /\ quiz' = [quiz EXCEPT !.ev = "answer", !.out = "closed", !.sent = 1]
            /\ UNCHANGED players /\ ~failed
       ELSE IF ev.game_id = <<>> \/ ev.question_id = "" \/ ev.answer_id = <<>>
       THEN /\ quiz' = [quiz EXCEPT !.ev = "answer", !.out = "invalid_quiz_payload", !.sent = 0]
            /\ UNCHANGED players /\ ~failed
       ELSE IF ev.game_id # GameId
       THEN /\ quiz' = [quiz EXCEPT !.ev = "answer", !.out = "game_not_found", !.sent = 0]
            /\ UNCHANGED players /\ ~failed
       ELSE IF game.quizOrder = <<>>
       THEN /\ quiz' = [quiz EXCEPT !.ev = "answer", !.out = "no_quiz_config", !.sent = 0]
            /\ UNCHANGED players /\ ~failed
       ELSE IF PlayersByPsid(players, psid) = {}
       THEN /\ quiz' = [quiz EXCEPT !.ev = "answer", !.out = "player_not_found", !.sent = 0]
            /\ UNCHANGED players /\ ~failed
       ELSE \E i \in PlayersByPsid(players, psid) :
              IF ~HasQuizAnswers(players[i], gk)
              THEN /\ quiz' = [quiz EXCEPT !.ev = "answer", !.out = "DynamoError", !.sent = 0]
                   /\ UNCHANGED players /\ ~failed
              ELSE LET next_qid == _next_question_id(ev.question_id, game.quizOrder)
                       saved == _save_quiz_answer(players, i, gk, ev.question_id,
                                                  ev.answer_id[1]) IN
                   /\ i \in DOMAIN quiz.log => Len(quiz.log[i]) < MaxEvents
                   /\ players' = SetQuizState(saved, i, gk, next_qid, next_qid = NONE)
                   /\ quiz' = [ev |-> "answer",
                               out |-> IF Dispatch(failed) = "raised"
                                       THEN "internal_error"
                                       ELSE IF next_qid = NONE THEN "completed"
                                       ELSE "nextQuestion",
                               sent |-> 1,
                               log |-> Logged(quiz.log, {i}, ev.question_id)]
    /\ call' = Noted(failed, "answer", psid)
    /\ UNCHANGED <<game, join, draw, val>>

\* the same with a sender that works
QuizAnswer(psid, payload) == QuizAnswerD(psid, payload, FALSE)

\* one player admitted by Join to a game created without a quiz
InitQuiz ==
    /\ \E gt \in {"T1MER", "INFOCARDS"} :
          /\ game = [NewGame(gt, 1, TRUE, <<>>) EXCEPT !.playersCount = 1]
          /\ \E c \in Codes, b \in ASSIGNERS(gt) :
                players = <<NewPlayer(1, c, gt, b)>>
    /\ join = NoInvocations
    /\ draw = NoInvocations
    /\ val = NoInvocations
    /\ quiz = [ev |-> NONE, out |-> NONE, sent |-> 0, log |-> <<<<>>>>]
    /\ call = NoInvocations

NextQuiz ==
    \/ \E questions \in QuestionLists : QuizConfigure(questions)
    \/ \E psid \in PSIDs : QuizStart(psid)
    \/ \E psid \in PSIDs, payload \in Payloads : QuizAnswer(psid, payload)

SpecQuiz == InitQuiz /\ [][NextQuiz]_vars

----------------------------------------------------------------------------
(* The handlers together: one Join, one validation request and one Draw    *)
(* run next to the quiz handlers on a RULET4 game that already has a player; *)
(* no player's quiz log is kept                                              *)

InitLifecycle ==
    /\ game = [NewGame("RULET4", 2, TRUE, <<>>) EXCEPT !.playersCount = 1]
    /\ \E c \in Codes, b \in ASSIGNERS("RULET4") :
          players = <<NewPlayer(1, c, "RULET4", b)>>
    /\ join = <<JoinIdle>>
    /\ draw = <<DrawIdle>>
    /\ val = <<ValIdle>>
    /\ quiz = [ev |-> NONE, out |-> NONE, sent |-> 0, log |-> <<>>]
    /\ call = NoInvocations

\* the quiz of the game has the single question q1
NextLifecycle ==
    \/ \E p \in PSIDs : JoinStart(1, p)
    \/ JoinExisting(1)
    \/ JoinReserve(1)
    \/ JoinReadLast(1)
    \/ JoinPut(1)
    \/ JoinWelcome(1)
    \/ \E ov \in BOOLEAN : DrawStart(1, 1, ov)
    \/ DrawQueryEligible(1)
    \/ DrawQueryFallback(1)
    \/ DrawSave(1)
    \/ DrawMark(1)
    \/ \E c \in Codes : ValStart(1, <<c>>)
    \/ ValQuery(1)
    \/ ValSet(1)
    \/ ValInc(1)
    \/ QuizConfigure(<<"q1">>)
    \/ \E psid \in PSIDs : QuizStart(psid)
    \/ \E psid \in PSIDs : QuizAnswer(psid, GameId \o <<"q1", "a1">>)

SpecLifecycle == InitLifecycle /\ [][NextLifecycle]_vars

----------------------------------------------------------------------------
(* Properties of the quiz *)

QuizBlob(i) == players[i].type[game.gameType]

\* IN_PROGRESS(q): quizCurrentQuestion = q and quizCompleted = false
IN_PROGRESS(i, q) ==
    /\ {"quizCurrentQuestion", "quizCompleted"} \subseteq DOMAIN QuizBlob(i)
    /\ QuizBlob(i).quizCurrentQuestion = q
    /\ ~QuizBlob(i).quizCompleted

\* COMPLETED: quizCompleted = true and no current question
COMPLETED(i) ==
    /\ {"quizCurrentQuestion", "quizCompleted"} \subseteq DOMAIN QuizBlob(i)
    /\ QuizBlob(i).quizCurrentQuestion = NONE
    /\ QuizBlob(i).quizCompleted

\* since its Start, player i has answered the first k questions of the
\* order, in order, and nothing else has touched its record
InOrderRun(i, k) ==
    /\ game.quizOrder # <<>>
    /\ k <= Len(game.quizOrder)
    /\ quiz.log[i] = <<"start">> \o SubSeq(game.quizOrder, 1, k)

\* the position the progression puts player i in after k answers in order
ProgressedTo(i, k) ==
    IF k < Len(game.quizOrder) THEN IN_PROGRESS(i, game.quizOrder[k + 1])
    ELSE COMPLETED(i)

\* C10: for a game with non-empty quizOrder [q1..qn], Start puts the player
\* in IN_PROGRESS(q1), and answering q1, ..., qn in order moves it through
\* IN_PROGRESS(q2), ..., IN_PROGRESS(qn) and, on the answer to qn and after
\* exactly n answers, to COMPLETED.
C10_QuizProgression ==
    \A i \in DOMAIN players : \A k \in 0..Len(game.quizOrder) :
        InOrderRun(i, k) => ProgressedTo(i, k)

\* quizOrder without a repeated question id
DistinctIds(order) == \A a, b \in 1..Len(order) : order[a] = order[b] => a = b

\* the progression of C10 for the orders whose question ids are pairwise distinct
QuizProgressionDistinct ==
    DistinctIds(game.quizOrder) => C10_QuizProgression

\* a run of Start and n >= 2 in-order answers over distinct question ids
\* that ended COMPLETED
QuizCompletedInOrder ==
    \E i \in DOMAIN players :
        /\ Len(game.quizOrder) >= 2 /\ DistinctIds(game.quizOrder)
        /\ InOrderRun(i, Len(game.quizOrder))
        /\ COMPLETED(i)

\* C11: a Start on a game whose quizOrder is empty replies no_quiz_config,
\* writes nothing to any player record and sends no message.
C11_StartWithoutQuiz ==
    [][(quiz'.ev = "start" /\ game.quizOrder = <<>>) =>
          (quiz'.out = "no_quiz_config" /\ players' = players /\ quiz'.sent = 0)]_vars

\* a Start was handled on the game while it had no quiz
C11_Witness ==
    /\ game.quizOrder = <<>>
    /\ quiz.ev = "start" /\ quiz.out = "no_quiz_config" /\ quiz.sent = 0

\* a player that already has quiz state: IN_PROGRESS at a question, or COMPLETED
HasQuizState(i) ==
    \/ COMPLETED(i)
    \/ \E q \in QIds : IN_PROGRESS(i, q)

\* C12: configuring or re-configuring the quiz leaves quizCurrentQuestion,
\* quizCompleted and quizAnswers of every player that already has quiz state
\* unchanged.
C12_ConfigureKeepsState ==
    [][(quiz'.ev = "configure" /\ quiz'.out = "configured") =>
          \A i \in DOMAIN players :
              HasQuizState(i) =>
                  LET old == players[i].type[game.gameType]
                      new == players'[i].type[game.gameType] IN
                  /\ new.quizCurrentQuestion = old.quizCurrentQuestion
                  /\ new.quizCompleted = old.quizCompleted
                  /\ new.quizAnswers = old.quizAnswers]_vars

----------------------------------------------------------------------------
(* Properties of Join under failures *)

\* the invocations whose reservation stands
Holding == { j \in DOMAIN join : join[j].reserved /\ join[j].rolled # "ok" }

\* the invocation has returned a failure other than the lost playerId race
\* after it had reserved its slot
FailedAfterReserve(j) ==
    /\ join[j].pc = "done" /\ join[j].reserved
    /\ join[j].result \in {"internal_error", "put_failed"}

\* C13: a Join that reserved a slot and then failed for a reason other than
\* the playerId race has rolled its reservation back when it returns, unless
\* the rollback write itself failed: playersCount counts no slot for it.
C13_FailureRollsBack ==
    /\ game.playersCount = Cardinality(Holding)
    /\ \A j \in DOMAIN join :
          (FailedAfterReserve(j) /\ join[j].rolled # "failed") => j \notin Holding

\* no invocation makes a seventh conditional-create attempt, and one that
\* lost six has created no player and replies race_condition_retry_exhausted
SixAttempts ==
    \A j \in DOMAIN join :
        /\ join[j].tries <= 6
        /\ join[j].tries = 6 => join[j].pc \in {"rollback", "done"}
        /\ (join[j].pc = "done" /\ join[j].tries = 6) =>
              /\ join[j].result = "race_condition_retry_exhausted"
              /\ join[j].pid = 0
              /\ PlayersByPsid(players, join[j].psid) = {}

Rejections == {"game_not_found", "game_inactive", "player_limit_reached"}

\* C15: a Join rejected because the game does not exist, is inactive or is
\* full creates no player record and leaves playersCount unchanged: the step
\* that rejects it writes nothing, and the invocation holds no reservation.
C15_RejectionWritesNothing ==
    [][\A j \in DOMAIN join :
          (join[j].pc # "done" /\ join'[j].pc = "done"
              /\ join'[j].result \in Rejections) =>
             (players' = players /\ game' = game /\ ~join'[j].reserved)]_vars

\* a Join was rejected on a full game that another Join had entered
C15_Witness ==
    \E j \in DOMAIN join :
        /\ join[j].pc = "done" /\ join[j].result = "player_limit_reached"
        /\ game.playersCount = game.maxPlayers
        /\ Cardinality(DOMAIN players) = game.maxPlayers

\* C16: the playerIds of the game's player records are exactly 1..n, n the
\* number of records: no id is skipped and none is reused.
C16_PlayerIdsGapFree ==
    DOMAIN players = 1..Cardinality(DOMAIN players)

\* two players exist and the second was created by an invocation that had
\* lost a race on its first attempt
C16_Witness ==
    /\ DOMAIN players = {1, 2}
    /\ \E j \in DOMAIN join : join[j].pid = 2 /\ join[j].tries >= 1

\* a player record with its validationCode and the map type.<GAMETYPE> of
\* the assigner, quizAnswers included
FullyInitialized(p) ==
    /\ p.code \in Codes
    /\ game.gameType \in DOMAIN p.type
    /\ p.type[game.gameType] \in
          { q @@ b : q \in {EmptyMap, [quizCurrentQuestion |-> "q1", quizCompleted |-> FALSE]},
                     b \in ASSIGNERS(game.gameType) }
    /\ "quizAnswers" \in DOMAIN p.type[game.gameType]

\* C17: every player record in the store is fully initialized, and it is so
\* from the write that created it, which also sets validated = false.
C17_NoPartialPlayer ==
    [][\A i \in DOMAIN players' :
          /\ FullyInitialized(players'[i])
          /\ i \notin DOMAIN players => ~players'[i].validated]_vars

\* a player of an EMPAREJA2 game and a second player exist
C17_Witness ==
    /\ Cardinality(DOMAIN players) = 2
    /\ game.gameType = "EMPAREJA2"
    /\ \A i \in DOMAIN players : FullyInitialized(players[i])

\* C18: validated is write-once: no step of any operation (validation, quiz
\* start, answer or configuration, Draw, Join) takes a player whose
\* validated is true to a state where it is false or the record is gone.
C18_ValidatedWriteOnce ==
    [][\A i \in DOMAIN players :
          players[i].validated => (i \in DOMAIN players' /\ players'[i].validated)]_vars

\* the first player is still validated after a Draw among the validated
\* players marked it as a winner, a quiz was configured and started for it,
\* and a Join created the second player
C18_Witness ==
    /\ players[1].validated
    /\ draw[1].ov /\ draw[1].result = "ok" /\ "raffleWin" \in DOMAIN players[1].type["RULET4"]
    /\ IN_PROGRESS(1, "q1")
    /\ 2 \in DOMAIN players /\ join[1].result = "created_new"

\* C19: when the Draw takes its fallback scan, its candidates are the
\* players with a deliverable identity (validated ones when asked so) whose
\* type.<GAMETYPE>.raffleEligible is true or absent; a player whose flag is
\* false is never one of them.
C19_FallbackFiltersByTypeFlag ==
    [][\A d \in DOMAIN draw :
          (draw[d].pc = "query" /\ draw'[d].pc # "query" /\ draw'[d].fallback)
          => draw'[d].cands =
                Candidates(players,
                           { i \in DOMAIN players :
                                IsRaffleEligible(players[i], game.gameType) },
                           draw[d].ov)]_vars

\* C20: in a game whose type has no registered validator, a request that
\* submits the code of an unvalidated player (the only holder of the code,
\* its quiz not pending) is answered valid = true and the player is marked
\* validated.
C20_UnregisteredTypeValidates ==
    \A v \in DOMAIN val, i \in DOMAIN players :
        (/\ val[v].pc = "done" /\ val[v].codes = <<CodeOf(i)>>
         /\ UniqueCode(i) /\ ~QuizPending(i))
        => (val[v].result = "valid" /\ players[i].validated)

----------------------------------------------------------------------------
(* The generic assigner called on its own: assigners/generic.py.  A string *)
(* is the sequence of its characters.                                       *)

TypeChars == {"t", "T", "1"}

LowerToUpper == [e |-> "E", m |-> "M", r |-> "R", t |-> "T", o |-> "O"]

\* str.upper
upper(str) ==
    [k \in DOMAIN str |-> IF str[k] \in DOMAIN LowerToUpper
                          THEN LowerToUpper[str[k]] ELSE str[k]]

UNKNOWN == <<"U", "N", "K", "N", "O", "W", "N">>

T1MER == <<"T", "1", "M", "E", "R">>

\* the keys of WELCOME_TEMPLATES, lines 12-17 (T1MER stands for the four)
WELCOME_TEMPLATES == { T1MER }

\* the gameType strings a ctx carries: every spelling of at most MaxTypeLen
\* characters (the empty one included), a type with a template in three
\* casings, a type without
GameTypeStrings ==
    UNION { [1..n -> TypeChars] : n \in 0..MaxTypeLen }
        \cup { T1MER, <<"t", "1", "m", "e", "r">>, <<"T", "1", "m", "e", "R">>,
               <<"r", "o", "t", "o">> }

Usernames == {"", "@tester"}

\* the ctx of a call: gameType may be missing
Contexts ==
    { [playerId |-> i, username_at |-> u] : i \in 1..2, u \in Usernames }
        \cup { [playerId |-> i, username_at |-> u, gameType |-> g] :
                  i \in 1..2, u \in Usernames, g \in GameTypeStrings }

\* assign_generic, lines 20-41: (patch, welcome_header, extra_messages)
assign_generic_call(ctx) ==
    LET gt == IF "gameType" \in DOMAIN ctx /\ ctx.gameType # <<>>
              THEN ctx.gameType ELSE UNKNOWN
        game_type == upper(gt) IN
    [patch |-> [type |-> (game_type :> _COMMON_TYPE_FIELDS)],
     welcome_header |-> IF game_type \in WELCOME_TEMPLATES
                        THEN [template |-> game_type, username_at |-> ctx.username_at]
                        ELSE [template |-> <<>>, player_id |-> ctx.playerId],
     extra_messages |-> <<>>]

InitAssignGeneric ==
    /\ game = NewGame("INFOCARDS", 1, TRUE, <<>>)
    /\ players = <<>>
    /\ join = NoInvocations
    /\ draw = NoInvocations
    /\ val = NoInvocations
    /\ quiz = <<>>
    /\ \E ctx \in Contexts : call = [pc |-> "called", ctx |-> ctx, ret |-> <<>>]

AssignGenericReturn ==
    /\ call.pc = "called"
    /\ call' = [call EXCEPT !.pc = "returned", !.ret = assign_generic_call(call.ctx)]
    /\ UNCHANGED <<game, players, join, draw, val, quiz>>

NextAssignGeneric == AssignGenericReturn

SpecAssignGeneric == InitAssignGeneric /\ [][NextAssignGeneric]_vars

LowerCase == DOMAIN LowerToUpper

\* K is str in upper case
IsUpperOf(K, str) ==
    /\ Len(K) = Len(str)
    /\ \A k \in 1..Len(str) :
          /\ K[k] \notin LowerCase
          /\ str[k] \notin LowerCase => K[k] = str[k]
          /\ str[k] \in LowerCase => K[k] = LowerToUpper[str[k]]

\* C21: for every game type the generic assigner returns a patch whose only
\* key is type, whose type map has the game type in upper case as its only
\* key, holding exactly the five common fields with their defaults, and an
\* empty list of extra messages.
C21_GenericPatch ==
    (call.pc = "returned" /\ "gameType" \in DOMAIN call.ctx /\ call.ctx.gameType # <<>>)
    => /\ DOMAIN call.ret.patch = {"type"}
       /\ \E K \in DOMAIN call.ret.patch.type :
             /\ DOMAIN call.ret.patch.type = {K}
             /\ IsUpperOf(K, call.ctx.gameType)
             /\ LET t == call.ret.patch.type[K] IN
                /\ DOMAIN t = {"raffleEligible", "quizRequired", "quizCompleted",
                               "quizCurrentQuestion", "quizAnswers"}
                /\ t.raffleEligible = TRUE
                /\ t.quizRequired = FALSE
                /\ t.quizCompleted = FALSE
                /\ t.quizCurrentQuestion = NONE
                /\ t.quizAnswers = EmptyMap
       /\ call.ret.extra_messages = <<>>

\* the call for a type spelled in mixed case has returned
C21_Witness ==
    /\ call.pc = "returned"
    /\ "gameType" \in DOMAIN call.ctx
    /\ call.ctx.gameType = <<"T", "1", "m", "e", "R">>
    /\ T1MER \in DOMAIN call.ret.patch.type

----------------------------------------------------------------------------
(* Properties of validation next to the other handlers *)

\* C22: the single-code validator never marks validated a player whose
\* quizRequired is true and quizCompleted is false (the step that sets
\* validated starts in a state where the player's quiz is not pending).
C22_NoValidationWhileQuizPending ==
    [][\A i \in DOMAIN players :
          (~players[i].validated /\ players'[i].validated) => ~QuizPending(i)]_vars

----------------------------------------------------------------------------
(* Properties of validate_empareja2 called on its own *)

\* the player a code resolves to: the first item query_players_by_code returns
Resolved(c) == CHOOSE i \in DOMAIN players :
                  /\ players[i].code = c
                  /\ \A k \in DOMAIN players : players[k].code = c => i <= k

Resolves(c) == \E i \in DOMAIN players : players[i].code = c

PairBlobOf(i) == players[i].type["EMPAREJA2"]

\* the outcome the checks of the claim give, in the claim's order
ExpectedPairOutcome(codes) ==
    IF Len(codes) # 2 THEN "invalid_code_count"
    ELSE IF codes[1] = BAD \/ codes[2] = BAD THEN "invalid_code_format"
    ELSE IF codes[1] = codes[2] THEN "same_code"
    ELSE IF ~Resolves(codes[1]) \/ ~Resolves(codes[2]) THEN "code_not_found"
    ELSE LET a == Resolved(codes[1])
             b == Resolved(codes[2]) IN
         IF players[a].validated \/ players[b].validated THEN "already_validated"
         ELSE IF \E i \in {a, b} : "pairId" \notin DOMAIN PairBlobOf(i)
                                   \/ PairBlobOf(i).pairId = ""
              THEN "missing_pair_data"
         ELSE IF PairBlobOf(a).characterId = PairBlobOf(b).characterId
              THEN "same_character"
         ELSE IF PairBlobOf(a).pairId # PairBlobOf(b).pairId THEN "different_pair"
         ELSE "valid"

\* C23: validate_empareja2 returns valid = true iff exactly two codes are
\* submitted, both numeric and different, both resolve to players, neither
\* is validated, both have a non-empty pairId, the characterIds differ and
\* the pairIds are equal; otherwise it returns the reason of the first
\* failed check.  (A request that passed the checks has written nothing
\* yet and goes on to valid = true for the two players the codes resolve
\* to; a rejected one has written nothing, so the players are those it
\* read.)
C23_PairOutcome ==
    \A v \in DOMAIN val :
        /\ val[v].pc = "set1" => ExpectedPairOutcome(val[v].codes) = "valid"
        /\ val[v].result = "valid"
           => /\ val[v].p1 = Resolved(val[v].codes[1]) /\ players[val[v].p1].validated
              /\ val[v].p2 = Resolved(val[v].codes[2]) /\ players[val[v].p2].validated
        /\ (val[v].pc = "done" /\ val[v].result # "valid")
           => val[v].result = ExpectedPairOutcome(val[v].codes)

\* a request was answered different_pair
C23_Witness ==
    /\ val[1].pc = "done" /\ val[1].result = "different_pair"
    /\ ExpectedPairOutcome(val[1].codes) = "different_pair"

----------------------------------------------------------------------------
(* Properties of pair validation under store errors.  val[v].changed counts *)
(* the players the request itself marked validated (changed1, changed2).    *)

\* C24: a validation request that returns valid = false has changed no
\* player's validated flag (and so has nothing to add to validatedCount).
C24_RejectionChangesNothing ==
    \A v \in DOMAIN val :
        (val[v].pc = "done" /\ val[v].result # "valid") => val[v].changed = 0

\* C26: after a pair-validation request has finished with any outcome,
\* either both submitted players were marked validated by it or neither was.
C26_PairAllOrNothing ==
    \A v \in DOMAIN val : val[v].pc = "done" => val[v].changed \in {0, 2}

----------------------------------------------------------------------------
(* Notifications that fail to dispatch *)

\* the game and player of InitLifecycle; no dispatch has failed yet
InitNotify ==
    /\ game = [NewGame("RULET4", 2, TRUE, <<>>) EXCEPT !.playersCount = 1]
    /\ \E c \in Codes, b \in ASSIGNERS("RULET4") :
          players = <<NewPlayer(1, c, "RULET4", b)>>
    /\ join = <<JoinIdle>>
    /\ draw = <<DrawIdle>>
    /\ val = NoInvocations
    /\ quiz = [ev |-> NONE, out |-> NONE, sent |-> 0, log |-> <<>>]
    /\ call = [op |-> NONE, id |-> 0, n |-> 0]

\* every send of Join, quiz Start, quiz Answer and Draw either reaches the
\* sender or fails
NextNotify ==
    \/ \E p \in PSIDs : JoinStart(1, p)
    \/ JoinExisting(1)
    \/ JoinReserve(1)
    \/ JoinReadLast(1)
    \/ JoinPut(1)
    \/ \E failed \in BOOLEAN : JoinWelcomeD(1, failed)
    \/ DrawStart(1, 1, FALSE)
    \/ DrawQueryEligible(1)
    \/ DrawQueryFallback(1)
    \/ DrawSave(1)
    \/ \E failed \in BOOLEAN : DrawMarkD(1, failed)
    \/ QuizConfigure(<<"q1">>)
    \/ \E psid \in PSIDs, failed \in BOOLEAN : QuizStartD(psid, failed)
    \/ \E psid \in PSIDs, failed \in BOOLEAN :
          QuizAnswerD(psid, GameId \o <<"q1", "a1">>, failed)

SpecNotify == InitNotify /\ [][NextNotify]_vars

\* C25: a step in which a notification fails to dispatch ends its operation
\* with the outcome of success: Join reports created_new, quiz Start ok, quiz
\* Answer completed or nextQuestion, Draw ok.
C25_DispatchFailureKeepsOutcome ==
    [][call' # call =>
          /\ call'.op = "join" => join'[call'.id].result = "created_new"
          /\ call'.op = "start" => quiz'.out = "ok"
          /\ call'.op = "answer" => quiz'.out \in {"completed", "nextQuestion"}
          /\ call'.op = "draw" => draw'[call'.id].result = "ok"]_vars

\* a welcome message failed to dispatch and the player was admitted, and the
\* last failure was the message after an answer that completed the quiz
C25_Witness ==
    /\ call.op = "answer"
    /\ quiz.ev = "answer" /\ quiz.out = "completed"
    /\ join[1].result = "created_new"
    /\ \E i \in DOMAIN players : players[i].psid = join[1].psid /\ COMPLETED(i)

----------------------------------------------------------------------------
(* Answers given again *)

AnswerIds == {"a1", "a2"}        \* the answer ids of one question

\* a T1MER game with the quiz q1, q2 and the one player Join admitted to it:
\* the quiz start of Join put the player at q1
InitQuizAnswers ==
    /\ game = [NewGame("T1MER", 1, TRUE, <<"q1", "q2">>) EXCEPT !.playersCount = 1]
    /\ \E c \in Codes, b \in ASSIGNERS("T1MER") :
          \E o \in QuizStartOutcomes(game, <<NewPlayer(1, c, "T1MER", b)>>, 1) :
             players = o[2]
    /\ join = NoInvocations
    /\ draw = NoInvocations
    /\ val = NoInvocations
    /\ quiz = [ev |-> NONE, out |-> NONE, sent |-> 0, log |-> <<<<>>>>]
    /\ call = NoInvocations

\* the quiz can be configured again; every question can be answered with
\* either answer, any number of times within the log
NextQuizAnswers ==
    \/ QuizConfigure(<<"q1", "q2">>)
    \/ \E psid \in PSIDs : QuizStart(psid)
    \/ \E psid \in PSIDs, q \in QIds, a \in AnswerIds :
          QuizAnswer(psid, GameId \o <<q, a>>)

SpecQuizAnswers == InitQuizAnswers /\ [][NextQuizAnswers]_vars

\* C27: an accepted answer a to a question q that already has a stored answer
\* leaves quizAnswers[q] = a, and the stored answers of the other questions
\* as they were.
C27_LastAnswerWins ==
    [][\A psid \in PSIDs, q \in QIds, a \in AnswerIds :
         \A i \in PlayersByPsid(players, psid) :
            LET old == players[i].type[game.gameType].quizAnswers
                new == players'[i].type[game.gameType].quizAnswers IN
            ( /\ QuizAnswer(psid, GameId \o <<q, a>>)
              /\ quiz'.out \in {"completed", "nextQuestion"}
              /\ q \in DOMAIN old )
            => /\ new[q] = a
               /\ DOMAIN new = DOMAIN old
               /\ \A r \in DOMAIN old \ {q} : new[r] = old[r]]_vars

\* q1 was answered, then q2, then q1 again: the stored answer of q1 is a2
\* and q2 keeps a1
C27_Witness ==
    /\ quiz.log[1] = <<"q1", "q2", "q1">>
    /\ players[1].type["T1MER"].quizAnswers = [q1 |-> "a2", q2 |-> "a1"]

\* the rank of player i in NOT_STARTED < IN_PROGRESS(q1) < ... < COMPLETED
\* for the quizOrder g holds, read from the record p
QuizPosition(p, g) ==
    LET gk == g.gameType
        order == g.quizOrder IN
    IF ~HasTypeBlob(p, gk) THEN 0
    ELSE IF ~({"quizCurrentQuestion", "quizCompleted"} \subseteq DOMAIN p.type[gk])
    THEN 0
    ELSE IF p.type[gk].quizCompleted /\ p.type[gk].quizCurrentQuestion = NONE
    THEN Len(order) + 1
    ELSE IF \E k \in 1..Len(order) : order[k] = p.type[gk].quizCurrentQuestion
    THEN IndexOf(p.type[gk].quizCurrentQuestion, order)
    ELSE 0

\* C28: an Answer event moves no player to a lower position of
\* NOT_STARTED < IN_PROGRESS(q1) < ... < IN_PROGRESS(qn) < COMPLETED.
C28_AnswerNeverMovesBack ==
    [][quiz'.ev = "answer" =>
          \A i \in DOMAIN players :
             QuizPosition(players'[i], game) >= QuizPosition(players[i], game)]_vars

----------------------------------------------------------------------------
(* Nested writes to the records Join creates *)

\* an active game of any type without players: every player of a behaviour
\* is created by Join
InitNested ==
    /\ \E gt \in GameTypes : game = NewGame(gt, 1, TRUE, <<>>)
    /\ players = <<>>
    /\ join = <<JoinIdle>>
    /\ draw = <<DrawIdle>>
    /\ val = NoInvocations
    /\ quiz = [ev |-> NONE, out |-> NONE, sent |-> 0, log |-> <<>>]
    /\ call = NoInvocations

\* one Join, the quiz handlers and one Draw
NextNested ==
    \/ \E p \in PSIDs : JoinStart(1, p)
    \/ JoinReserve(1)
    \/ JoinReadLast(1)
    \/ JoinPut(1)
    \/ JoinWelcome(1)
    \/ QuizConfigure(<<"q1">>)
    \/ \E psid \in PSIDs : QuizStart(psid)
    \/ \E psid \in PSIDs : QuizAnswer(psid, GameId \o <<"q1", "a1">>)
    \/ \E ov \in BOOLEAN : DrawStart(1, 1, ov)
    \/ DrawQueryEligible(1)
    \/ DrawQueryFallback(1)
    \/ DrawSave(1)
    \/ DrawMark(1)

SpecNested == InitNested /\ [][NextNested]_vars

\* C29: a step that changes type.<GAMETYPE> of an existing player finds type
\* and type.<GAMETYPE> on the record, and quizAnswers too when it changes an
\* answer; no quiz event fails on a missing path.
C29_NestedWritesHavePath ==
    [][/\ quiz'.out # "DynamoError"
       /\ \A i \in DOMAIN players :
             LET gk == game.gameType IN
             players'[i].type # players[i].type =>
                /\ HasTypeBlob(players[i], gk)
                /\ HasQuizAnswers(players'[i], gk)
                /\ players'[i].type[gk].quizAnswers # EmptyMap
                      => HasQuizAnswers(players[i], gk)]_vars

\* a player that joined a game with a quiz answered it and was marked as the
\* winner of the Draw
C29_Witness ==
    /\ DOMAIN players = {1}
    /\ COMPLETED(1)
    /\ players[1].type[game.gameType].quizAnswers = [q1 |-> "a1"]
    /\ "raffleWin" \in DOMAIN players[1].type[game.gameType]
    /\ game.gameType = "INFOCARDS"

\* C30: the game has at most playersCount player records, and playersCount
\* is not negative; so it has at most maxPlayers records.
C30_RecordsWithinCount ==
    /\ Cardinality(DOMAIN players) <= game.playersCount
    /\ game.playersCount >= 0
    /\ Cardinality(DOMAIN players) <= game.maxPlayers

\* a reservation was rolled back and every slot that is still counted
\* belongs to a player record
C30_Witness ==
    /\ \E j \in DOMAIN join : join[j].reserved /\ join[j].rolled = "ok"
    /\ DOMAIN players # {}
    /\ Cardinality(DOMAIN players) = game.playersCount

----------------------------------------------------------------------------
(* validatedCount *)

\* the player records with validated = true
ValidatedPlayers == { i \in DOMAIN players : players[i].validated }

\* C31: whenever no validation request is in flight, validatedCount equals
\* the number of player records with validated = true.
C31_ValidatedCountTracks ==
    (\A v \in DOMAIN val : val[v].pc \in {"idle", "done"})
        => game.validatedCount = Cardinality(ValidatedPlayers)

\* C39: a request whose increment of validatedCount is its last store call
\* (the player was marked validated just before) ends with valid = true,
\* whether the increment succeeded or not.
C39_IncFailureKeepsValid ==
    [][\A v \in DOMAIN val :
          (val[v].pc = "inc" /\ val'[v].pc = "done") => val'[v].result = "valid"]_vars

----------------------------------------------------------------------------
(* The Instagram webhook: stand_prod_webhook_fn_instagram/lambda_function.py. *)
(* A text is the sequence of its characters.                                  *)

ASSIGN_LAMBDA == "stand-prod-game-fn-assign"

QUIZ_LAMBDA == "stand-prod-game-fn-quizz"

_GAMEID_LEN == 6

Digits == {"0", "1", "2", "3", "4", "5", "6", "7", "8", "9"}

Blank == " "

\* str.strip()
RECURSIVE lstrip(_)
lstrip(t) == IF t # <<>> /\ Head(t) = Blank THEN lstrip(Tail(t)) ELSE t

RECURSIVE rstrip(_)
rstrip(t) ==
    IF t # <<>> /\ t[Len(t)] = Blank THEN rstrip(SubSeq(t, 1, Len(t) - 1)) ELSE t

strip(t) == rstrip(lstrip(t))

\* _get_quick_payload: the quick-reply payload, else the postback payload,
\* else None; an empty payload counts as none
_get_quick_payload(m) ==
    IF m.quick_reply # NONE /\ m.quick_reply # "" THEN m.quick_reply
    ELSE IF m.postback # NONE /\ m.postback # "" THEN m.postback
    ELSE NONE

\* _looks_like_game_id: _GAMEID_RE = ^\d{6}$ on the stripped text
_looks_like_game_id(text) ==
    LET t == strip(text) IN
    /\ text # <<>>
    /\ Len(t) = _GAMEID_LEN
    /\ \A k \in 1..Len(t) : t[k] \in Digits

\* a classification that looks at the text before the payload
_classify_message_TextFirst(m) ==
    LET text == strip(m.text)
        quick_payload == _get_quick_payload(m) IN
    IF _looks_like_game_id(text) THEN [kind |-> "game_id", game_id |-> strip(text)]
    ELSE IF quick_payload # NONE THEN [kind |-> "quiz_answer", payload |-> quick_payload]
    ELSE [kind |-> "other"]

\* _classify_message, lines 126-142 (upper() leaves a text of digits as it is)
_classify_message(m) ==
    LET text == strip(m.text)
        quick_payload == _get_quick_payload(m) IN
    IF quick_payload # NONE THEN [kind |-> "quiz_answer", payload |-> quick_payload]
    ELSE IF _looks_like_game_id(text) THEN [kind |-> "game_id", game_id |-> strip(text)]
    ELSE [kind |-> "other"]

\* _handle_and_dispatch, lines 160-204: the invocations _invoke_async is
\* called for, in order
_handle_and_dispatch(m, IG_SENDER_ID) ==
    LET psid == m.sender IN
    IF psid = NONE THEN <<>>
    ELSE IF (IG_SENDER_ID # "" /\ psid = IG_SENDER_ID) \/ m.is_echo THEN <<>>
    ELSE LET c == _classify_message(m) IN
         IF c.kind = "other" THEN <<>>
         ELSE IF c.kind = "quiz_answer"
         THEN << [target |-> QUIZ_LAMBDA, kind |-> "quiz_answer", psid |-> psid,
                  quizPayload |-> c.payload] >>
         ELSE << [target |-> ASSIGN_LAMBDA, kind |-> "game_id", psid |-> psid,
                  game_id |-> c.game_id] >>

\* texts: up to MaxTextLen characters, at most one of them not a digit,
\* with or without a blank before and after
Bodies ==
    UNION { { b \in [1..n -> {"1", "a"}] :
                Cardinality({ k \in 1..n : b[k] = "a" }) <= 1 } : n \in 0..MaxTextLen }

Texts == { l \o b \o r : l \in {<<>>, <<Blank>>}, r \in {<<>>, <<Blank>>}, b \in Bodies }

\* the messaging entries of a webhook POST: the sender may be missing, the
\* account itself or a participant
Messagings ==
    [sender : {NONE, "self", "u1"}, is_echo : BOOLEAN, text : Texts,
     quick_reply : {NONE, "", "g1_q1_a1"}, postback : {NONE, "g1_q1_a2"}]

InitWebhook ==
    /\ game = NewGame("T1MER", 1, TRUE, <<>>)
    /\ players = <<>>
    /\ join = NoInvocations
    /\ draw = NoInvocations
    /\ val = NoInvocations
    /\ quiz = <<>>
    /\ \E m \in Messagings, id \in {"", "self"} :
          call = [pc |-> "called", m |-> m, IG_SENDER_ID |-> id, ret |-> <<>>]

WebhookDispatch ==
    /\ call.pc = "called"
    /\ call' = [call EXCEPT !.pc = "returned",
                            !.ret = _handle_and_dispatch(call.m, call.IG_SENDER_ID)]
    /\ UNCHANGED <<game, players, join, draw, val, quiz>>

NextWebhook == WebhookDispatch

SpecWebhook == InitWebhook /\ [][NextWebhook]_vars

\* the message has no sender, is an echo, or was sent by the account
Ignored(m, id) == m.sender = NONE \/ m.is_echo \/ (id # "" /\ m.sender = id)

\* the text is six digits between blanks
SixDigits(text) ==
    \E i \in 1..Len(text) :
       /\ i + 5 <= Len(text)
       /\ \A k \in 1..Len(text) :
             IF k \in i..(i + 5) THEN text[k] \in Digits ELSE text[k] = Blank

CarriesPayload(m) ==
    (m.quick_reply \notin {NONE, ""}) \/ (m.postback \notin {NONE, ""})

\* C32: a message is dispatched to at most one handler: to the quiz handler
\* as quiz_answer when it carries a quick-reply or postback payload, else to
\* the join handler as game_id when its trimmed text is exactly six digits,
\* else to none; an echo or self-sent message is dispatched to none.
C32_Routing ==
    call.pc = "returned" =>
        LET m == call.m
            out == call.ret IN
        /\ Len(out) <= 1
        /\ IF Ignored(m, call.IG_SENDER_ID) THEN out = <<>>
           ELSE IF CarriesPayload(m)
           THEN /\ Len(out) = 1
                /\ out[1].target = QUIZ_LAMBDA /\ out[1].kind = "quiz_answer"
                /\ out[1].quizPayload \in {m.quick_reply, m.postback}
           ELSE IF SixDigits(m.text)
           THEN /\ Len(out) = 1
                /\ out[1].target = ASSIGN_LAMBDA /\ out[1].kind = "game_id"
                /\ out[1].game_id = strip(m.text)
           ELSE out = <<>>

\* a quick reply whose text is a six-digit code went to the quiz handler
C32_Witness ==
    /\ call.pc = "returned"
    /\ call.m.text = <<"1", "1", "1", "1", "1", "1">>
    /\ call.m.quick_reply = "g1_q1_a1"
    /\ Len(call.ret) = 1 /\ call.ret[1].target = QUIZ_LAMBDA

----------------------------------------------------------------------------
(* Draw requests: _parse_event and the head of the raffle lambda_handler *)

\* the values numberOfWinners arrives with: missing, a JSON integer, a JSON
\* number with a fraction (kept as its integer part), a JSON boolean, a string
NumberInputs ==
    { [t |-> "none"] }
        \cup { [t |-> "int", v |-> k] : k \in -1..MaxWinners }
        \cup { [t |-> "float", whole |-> k] : k \in 0..1 }
        \cup { [t |-> "bool", b |-> b] : b \in BOOLEAN }
        \cup { [t |-> "str", s |-> s] :
                 s \in { <<>>, <<"x">>, <<"2">>, <<"0">>, <<"-", "1">>,
                         <<Blank, "1", Blank>>, <<"1", ".", "5">> } }

DigitValue ==
    [c \in Digits |->
        CASE c = "0" -> 0 [] c = "1" -> 1 [] c = "2" -> 2 [] c = "3" -> 3
          [] c = "4" -> 4 [] c = "5" -> 5 [] c = "6" -> 6 [] c = "7" -> 7
          [] c = "8" -> 8 [] c = "9" -> 9]

\* the value of a sequence of decimal digits
RECURSIVE DecimalValue(_)
DecimalValue(s) ==
    IF s = <<>> THEN 0
    ELSE 10 * DecimalValue(SubSeq(s, 1, Len(s) - 1)) + DigitValue[s[Len(s)]]

IsDigits(s) == s # <<>> /\ \A k \in 1..Len(s) : s[k] \in Digits

\* a parse that falls back to one winner
n_winners_of_DefaultOne(x) ==
    CASE x.t = "int" -> [ok |-> TRUE, v |-> x.v]
      [] OTHER -> [ok |-> TRUE, v |-> 1]

\* _parse_event, lines 77-81: int(numberOfWinners), None when int() raises.
\* int() truncates a float, reads a boolean as 0 or 1 and a string as a
\* signed decimal literal between blanks
n_winners_of(x) ==
    CASE x.t = "none" -> [ok |-> FALSE, v |-> 0]
      [] x.t = "int" -> [ok |-> TRUE, v |-> x.v]
      [] x.t = "float" -> [ok |-> TRUE, v |-> x.whole]
      [] x.t = "bool" -> [ok |-> TRUE, v |-> IF x.b THEN 1 ELSE 0]
      [] x.t = "str" ->
            LET s == strip(x.s) IN
            IF IsDigits(s) THEN [ok |-> TRUE, v |-> DecimalValue(s)]
            ELSE IF s # <<>> /\ Head(s) \in {"-", "+"} /\ IsDigits(Tail(s))
                 THEN [ok |-> TRUE,
                       v |-> IF Head(s) = "-" THEN 0 - DecimalValue(Tail(s))
                             ELSE DecimalValue(Tail(s))]
                 ELSE [ok |-> FALSE, v |-> 0]

\* the gameId of a request: missing, the game's, one no Games record has
DrawGameIds == {"", "g1", "zz"}

\* lines 313-335: the request is rejected before anything is read or written
DrawReject(d, error) ==
    /\ draw' = [draw EXCEPT ![d].pc = "done", ![d].result = error]
    /\ UNCHANGED <<game, players, join, val, quiz, call>>

\* lines 313-353: the checks on the request in the order of the handler, then
\* the Draw itself
DrawRequest(d, game_id, numberOfWinners, ov) ==
    /\ draw[d].pc = "idle"
    /\ LET n_winners == n_winners_of(numberOfWinners) IN
       IF game_id = "" THEN DrawReject(d, "MissingGameId")
       ELSE IF ~n_winners.ok \/ n_winners.v <= 0
       THEN DrawReject(d, "InvalidNumberOfWinners")
       ELSE IF game_id # "g1" THEN DrawReject(d, "GameNotFound")
       ELSE DrawStart(d, n_winners.v, ov)

\* an INFOCARDS game, active or not, and its players
InitDrawRequests ==
    /\ \E a \in BOOLEAN :
          game = [NewGame("INFOCARDS", NRaffle, a, <<>>) EXCEPT !.playersCount = NRaffle]
    /\ players \in RafflePlayers("INFOCARDS")
    /\ join = NoInvocations
    /\ draw = <<DrawIdle>>
    /\ val = NoInvocations
    /\ quiz = <<>>
    /\ call = NoInvocations

NextDrawRequests ==
    \/ \E g \in DrawGameIds, x \in NumberInputs, ov \in BOOLEAN : DrawRequest(1, g, x, ov)
    \/ DrawQueryEligible(1)
    \/ DrawQueryFallback(1)
    \/ DrawSave(1)
    \/ DrawMark(1)

SpecDrawRequests == InitDrawRequests /\ [][NextDrawRequests]_vars

\* numberOfWinners is missing, is not an integer literal or is not positive
\* (a number with a fraction or a boolean is neither)
BadNumberOfWinners(x) ==
    \/ x.t = "none"
    \/ x.t = "int" /\ x.v <= 0
    \/ x.t = "str" /\ x.s \notin { <<"2">>, <<Blank, "1", Blank>> }

----------------------------------------------------------------------------
(* Quick-reply payloads: built by stand_prod_game_fn                        *)
(* (_load_default_quiz_from_catalog) and stand_prod_quiz_fn_generate        *)
(* (_normalize_quiz), decoded by stand_prod_game_fn_quiz                    *)
(* (_parse_quiz_payload). An id is the sequence of its tokens between "_"   *)
(* separators; the empty string is the one empty token.                     *)

\* the ids with up to MaxIdTokens tokens spelled from the tokens of 'alphabet'
IdsOver(alphabet) == UNION { [1..n -> alphabet] : n \in 1..MaxIdTokens }

\* gameId: a join code, or an id with separators
PayloadGameIds == IdsOver({"g1", "7"})

\* questionId of a catalog item or of a generated question
PayloadQuestionIds == IdsOver({"q1", "q2"})

\* answerId of an option; opt.get('answerId', '') is '' for an option without
PayloadAnswerIds == IdsOver({"a", "b"}) \cup { <<"">> }

\* f"{game_id}_{qid}_{answerId}": the tokens of the three ids in a row
payload_of(game_id, qid, answerId) == game_id \o qid \o answerId

InitPayload ==
    /\ game = NewGame("T1MER", 1, TRUE, <<>>)
    /\ players = <<>>
    /\ join = NoInvocations
    /\ draw = NoInvocations
    /\ val = NoInvocations
    /\ quiz = <<>>
    /\ \E g \in PayloadGameIds, q \in PayloadQuestionIds, a \in PayloadAnswerIds :
          call = [pc |-> "called", game_id |-> g, qid |-> q, answerId |-> a,
                  ret |-> _parse_quiz_payload(<<>>)]

\* the payload of one option is built, sent as a quick reply and decoded
PayloadRoundTrip ==
    /\ call.pc = "called"
    /\ call' = [call EXCEPT
                  !.pc = "returned",
                  !.ret = _parse_quiz_payload(
                             payload_of(call.game_id, call.qid, call.answerId))]
    /\ UNCHANGED <<game, players, join, draw, val, quiz>>

NextPayload == PayloadRoundTrip

SpecPayload == InitPayload /\ [][NextPayload]_vars

\* C34: decoding the payload built from a gameId, a question id and an answer
\* id yields exactly that gameId, question id and answer id.
C34_PayloadRoundTrip ==
    call.pc = "returned" =>
        /\ call.ret.game_id = call.game_id
        /\ <<call.ret.question_id>> = call.qid
        /\ call.ret.answer_id = call.answerId

\* the round trip of a question id and an answer id that are each one
\* non-empty token, whatever the gameId
RoundTripOfPlainIds ==
    ( /\ call.pc = "returned"
      /\ Len(call.qid) = 1 /\ Len(call.answerId) = 1 /\ call.answerId # <<"">> )
    => /\ call.ret.game_id = call.game_id
       /\ <<call.ret.question_id>> = call.qid
       /\ call.ret.answer_id = call.answerId

----------------------------------------------------------------------------
(* Pair validation with overlapping codes: validators/empareja2.py 35-113 *)

\* one code per player, all different
OverlapCodes == { 1111 * k : k \in 1..(NValPlayers + 1) }

\* the two codes of a request: two different codes of players of the game
OverlapCodeLists == { <<c, e>> : c, e \in OverlapCodes } \ { <<c, c>> : c \in OverlapCodes }

\* one more player than a pair has; player k holds the code 1111 * k and a
\* character of the catalog (random.choice: two players may get the same)
OverlapPlayers ==
    { pl \in [1..(NValPlayers + 1) ->
                { NewPlayer(0, c, "EMPAREJA2", b) : c \in OverlapCodes, b \in assign_empareja2 }] :
        \A k \in DOMAIN pl : pl[k].code = 1111 * k }

InitPairOverlap ==
    /\ game = [NewGame("EMPAREJA2", NValPlayers + 1, TRUE, <<>>)
                  EXCEPT !.playersCount = NValPlayers + 1]
    /\ \E pl \in OverlapPlayers : players = WithPsids(pl)
    /\ join = NoInvocations
    /\ draw = NoInvocations
    /\ val = [v \in 1..NVal |-> ValIdle]
    /\ quiz = <<>>
    /\ call = NoInvocations

NextPairOverlap ==
    \/ \E v \in DOMAIN val, codes \in OverlapCodeLists : ValStart(v, codes)
    \/ \E v \in DOMAIN val : ValPairQuery1(v)
    \/ \E v \in DOMAIN val : ValPairQuery2(v)
    \/ \E v \in DOMAIN val : ValPairSet1(v)
    \/ \E v \in DOMAIN val : ValPairSet2(v)
    \/ \E v \in DOMAIN val : ValInc(v)

SpecPairOverlap == InitPairOverlap /\ [][NextPairOverlap]_vars

\* the requests answered valid = true whose pair includes player i
SuccessfulWith(i) ==
    { v \in DOMAIN val : val[v].result = "valid" /\ i \in {val[v].p1, val[v].p2} }

\* C35: each player takes part in at most one pair validation that is
\* answered valid = true, whatever the interleaving of the requests and
\* whatever codes they share.
C35_OnePairPerPlayer ==
    \A i \in DOMAIN players : Cardinality(SuccessfulWith(i)) <= 1

\* no player is in two pairs answered valid = true with two different partners
OnePartnerPerPlayer ==
    \A i \in DOMAIN players : \A v, w \in SuccessfulWith(i) :
        {val[v].p1, val[v].p2} = {val[w].p1, val[w].p2}

----------------------------------------------------------------------------
(* Validation codes: _code4 (assign lambda 50-51, 341-349) *)

\* C36: in every reachable state no two players of the game hold the same
\* validationCode.
C36_CodesUnique ==
    \A a, b \in DOMAIN players : a # b => players[a].code # players[b].code

----------------------------------------------------------------------------
(* Sparse eligibility index: gsi-raffleEligible (raffle lambda 179-215,    *)
(* 284-295) over the records of _put_player (assign lambda 341-375)        *)

\* C37: a player record carries eligibleForGameId exactly when the player is
\* still raffle-eligible (type.<g>.raffleEligible true or absent), so that
\* the index query of a Draw returns every admitted player who has not won.
C37_IndexMatchesEligibility ==
    \A i \in DOMAIN players :
        players[i].elig <=> IsRaffleEligible(players[i], game.gameType)

----------------------------------------------------------------------------
(* Winners of a Draw: _save_raffle_winners_to_game (raffle lambda 116-158) *)
(* and the winners loop of lambda_handler (385-439)                        *)

\* _mark_winner has been applied to player i: eligibleForGameId removed,
\* raffleEligible false, raffleWin true
EligibilityCleared(i) ==
    LET gk == game.gameType IN
    /\ ~players[i].elig
    /\ gk \in DOMAIN players[i].type
    /\ "raffleEligible" \in DOMAIN players[i].type[gk]
    /\ ~players[i].type[gk].raffleEligible
    /\ "raffleWin" \in DOMAIN players[i].type[gk]
    /\ players[i].type[gk].raffleWin

\* C38: once a Draw has returned its winners, every player listed in the
\* game's raffleWinners has had its eligibility cleared.
C38_WinnersCleared ==
    (\E d \in DOMAIN draw : draw[d].result = "ok")
        => \A k \in DOMAIN game.raffleWinners : EligibilityCleared(game.raffleWinners[k])

----------------------------------------------------------------------------
(* Stripe webhook: stand_prod_webhook_fn_stripe/lambda_function.py. Times  *)
(* are whole hours; call holds the clock, the user's record and the        *)
(* deliveries in flight.                                                   *)

PLAN_HOURS == 24                 \* timedelta(hours=24)

ClockStep == 12                  \* hours between two readings of the clock

NoActiveUntil == -1              \* the record has no activeUntil

EventIds == {"evt_1", "evt_2"}   \* ids of checkout.session.completed events

PaymentStatuses == {"paid", "no_payment_required", "unpaid"}

\* _plus_24h_from: 24 h from activeUntil when it is in the future, else from now
_plus_24h_from(active_until, now) ==
    LET base == IF active_until # NoActiveUntil /\ active_until > now
                THEN active_until ELSE now
    IN base + PLAN_HOURS

DeliveryIdle == [pc |-> "idle", evt_id |-> "", active_until |-> NoActiveUntil,
                 outcome |-> NONE]

InitStripe ==
    /\ game = NewGame("T1MER", 1, TRUE, <<>>)
    /\ players = <<>>
    /\ join = NoInvocations
    /\ draw = NoInvocations
    /\ val = NoInvocations
    /\ quiz = <<>>
    /\ call = [now |-> 0,
               user |-> [activeUntil |-> NoActiveUntil, lastStripeEventId |-> ""],
               deliveries |-> [d \in 1..NDeliveries |-> DeliveryIdle]]

\* lines 93-117: the event is verified; only a paid checkout.session.completed
\* goes on
StripeReceive(d, evt_id, payment_status) ==
    /\ call.deliveries[d].pc = "idle"
    /\ call' = [call EXCEPT !.deliveries[d] =
                  IF payment_status \notin {"paid", "no_payment_required"}
                  THEN [@ EXCEPT !.pc = "done", !.evt_id = evt_id,
                                 !.outcome = "session_not_paid_yet"]
                  ELSE [@ EXCEPT !.pc = "read", !.evt_id = evt_id]]
    /\ UNCHANGED <<game, players, join, draw, val, quiz>>

\* lines 128-134: read the user's activeUntil and compute the new one
StripeRead(d) ==
    /\ call.deliveries[d].pc = "read"
    /\ call' = [call EXCEPT !.deliveries[d].pc = "write",
                            !.deliveries[d].active_until =
                                _plus_24h_from(call.user.activeUntil, call.now)]
    /\ UNCHANGED <<game, players, join, draw, val, quiz>>

\* lines 178-193: the update, conditional on lastStripeEventId <> :eid
StripeWrite(d) ==
    /\ call.deliveries[d].pc = "write"
    /\ IF call.user.lastStripeEventId # call.deliveries[d].evt_id
       THEN call' = [call EXCEPT
                       !.user = [activeUntil |-> call.deliveries[d].active_until,
                                 lastStripeEventId |-> call.deliveries[d].evt_id],
                       !.deliveries[d].pc = "done",
                       !.deliveries[d].outcome = "plan_activated"]
       ELSE call' = [call EXCEPT !.deliveries[d].pc = "done",
                                 !.deliveries[d].outcome = "duplicate_event_ignored"]
    /\ UNCHANGED <<game, players, join, draw, val, quiz>>

\* time passes; no invocation lasts ClockStep hours, so none is between its
\* read and its update meanwhile
StripeTick ==
    /\ call.now < MaxClock
    /\ \A d \in 1..NDeliveries : call.deliveries[d].pc # "write"
    /\ call' = [call EXCEPT !.now = @ + ClockStep]
    /\ UNCHANGED <<game, players, join, draw, val, quiz>>

NextStripe ==
    \/ \E d \in 1..NDeliveries, e \in EventIds, s \in PaymentStatuses : StripeReceive(d, e, s)
    \/ \E d \in 1..NDeliveries : StripeRead(d)
    \/ \E d \in 1..NDeliveries : StripeWrite(d)
    \/ StripeTick

SpecStripe == InitStripe /\ [][NextStripe]_vars

\* the deliveries of event e that have extended activeUntil
Activations(e) ==
    { d \in 1..NDeliveries : /\ call.deliveries[d].evt_id = e
                             /\ call.deliveries[d].outcome = "plan_activated" }

\* no event id has extended activeUntil twice
EachEventOnce == \A e \in EventIds : Cardinality(Activations(e)) <= 1

\* an update extends the activeUntil it replaces: it writes 24 h more than
\* the stored value, or than the clock when the stored value has passed
ExtendsStored ==
    \A d \in 1..NDeliveries :
        (call.deliveries[d].pc = "write" /\ call'.deliveries[d].outcome = "plan_activated")
            => call'.user.activeUntil = _plus_24h_from(call.user.activeUntil, call.now)

\* C40: over any interleaving of deliveries of paid checkout.session.completed
\* events for one user, each distinct event id extends activeUntil by 24 hours
\* exactly once: no event id is applied twice, and every applied event adds its
\* 24 hours to what the user already had.
C40_EachEventExtendsOnce == [](EachEventOnce) /\ [][ExtendsStored]_vars

====
